---- MODULE Spec2Model ----
(***************************************************************************)
(* Synchronization and cache-refresh engine of the Shopify analytics API.  *)
(*                                                                         *)
(*  - the paginated fetch loops of ShopifyService (fetchAllOrders,         *)
(*    fetchLimitedOrders, fetchLimitedProducts, fetchLimitedCustomers),    *)
(*    one step per page request                       (FetchSpec);         *)
(*  - the sync orchestrator ShopifySchedulerService.syncShopifyData with   *)
(*    its manual trigger, failure handling and status query, one step per  *)
(*    await point, over the cache behind RedisService  (Spec).             *)
(***************************************************************************)
EXTENDS Integers, Sequences, FiniteSets, TLC

(***************************************************************************)
(* Bounds of the model                                                     *)
(***************************************************************************)
\* largest upstream dataset explored by the fetch specification
MaxRecords == 120
\* longest scripted sequence of upstream responses of one fetch in a cycle
MaxScript == 3
\* number of cycles that may be started in one behaviour
MaxSyncs == 2
\* invocations of syncShopifyData that may be in progress at once
MaxInvocations == 2
\* backend errors the cache may raise in one behaviour
MaxCacheErrors == 1
\* cron ticks of the sync job followed by the schedule specification
MaxTicks == 3
\* longest time a cycle takes to reach its cache writes, in time steps
MaxCycleSteps == 1
\* emergency wipes in one behaviour
MaxWipes == 1
\* milliseconds that pass while two cache probes run
MaxNow == 2

(***************************************************************************)
(* Program constants                                                       *)
(***************************************************************************)
\* shopify.service.ts:381  const pageSize = 50
pageSize == 50
\* shopify.service.ts:40, 380  const maxRetries = 3 (order fetches)
OrdersMaxRetries == 3
\* shopify.service.ts:110, 237  const maxRetries = 2 (products, customers)
LimitedMaxRetries == 2

Min(a, b) == IF a < b THEN a ELSE b

\* the paginated fetches of ShopifyService
FetchKinds == {"fetchAllOrders", "fetchLimitedOrders",
               "fetchLimitedProducts", "fetchLimitedCustomers"}

\* record caps passed by the callers of the limited fetches
Caps == {30, 100, 200}

\* what one page request can come back with: a page, a response without
\* edges, a retryable APIError (429), any other error
Responses == {"ok", "noEdges", "retryable", "fatal"}

\* fetchAllOrders has no record cap, the limited fetches have one
Capped(kind) == kind # "fetchAllOrders"

maxRetries(kind) ==
  IF kind \in {"fetchAllOrders", "fetchLimitedOrders"}
  THEN OrdersMaxRetries ELSE LimitedMaxRetries

\* the order fetches rethrow an error that is not a retryable APIError;
\* the product and customer fetches retry whatever was thrown
RethrowsFatal(kind) == kind \in {"fetchAllOrders", "fetchLimitedOrders"}

(***************************************************************************)
(* Upstream query API: a dataset of M records 1..M; a request for `first`  *)
(* records after cursor `after` (0 = no cursor).                           *)
(***************************************************************************)
UpstreamPage(M, first, after) ==
  LET n == Min(first, M - after) IN
  [ edges       |-> [i \in 1..n |-> after + i],
    hasNextPage |-> after + first < M,
    endCursor   |-> IF n = 0 THEN 0 ELSE after + n ]

(***************************************************************************)
(* The pagination loop                                                     *)
(***************************************************************************)
\* locals at loop entry
FetchStart ==
  [ records |-> <<>>, hasNextPage |-> TRUE, cursor |-> 0,
    retryCount |-> 0, status |-> "running" ]

\* while (hasNextPage && records.length < max && retryCount < maxRetries)
LoopGuard(kind, cap, st) ==
  /\ st.hasNextPage
  /\ Capped(kind) => Len(st.records) < cap
  /\ st.retryCount < maxRetries(kind)

\* a page request that always asks for a whole page
PageFirstWholePage(kind, cap, st) == pageSize

\* pagination.first
PageFirst(kind, cap, st) ==
  IF Capped(kind) THEN Min(pageSize, cap - Len(st.records)) ELSE pageSize

\* OnSuccess keeping the retry counter
OnSuccessKeepingRetries(kind, cap, st, page) ==
  LET recs == st.records \o page.edges IN
  [ st EXCEPT !.records     = recs,
              !.hasNextPage = page.hasNextPage
                              /\ (Capped(kind) => Len(recs) < cap),
              !.cursor      = page.endCursor ]

\* OnSuccess reading pageInfo.hasNextPage from the wrong place (undefined)
OnSuccessSinglePage(kind, cap, st, page) ==
  LET recs == st.records \o page.edges IN
  [ st EXCEPT !.records     = recs,
              !.hasNextPage = FALSE,
              !.cursor      = page.endCursor,
              !.retryCount  = 0 ]

\* OnSuccess appending the page twice
OnSuccessTwice(kind, cap, st, page) ==
  LET recs == st.records \o page.edges \o page.edges IN
  [ st EXCEPT !.records     = recs,
              !.hasNextPage = page.hasNextPage
                              /\ (Capped(kind) => Len(recs) < cap),
              !.cursor      = page.endCursor,
              !.retryCount  = 0 ]

\* try-block after a response with edges
OnSuccess(kind, cap, st, page) ==
  LET recs == st.records \o page.edges IN
  [ st EXCEPT !.records     = recs,
              !.hasNextPage = page.hasNextPage
                              /\ (Capped(kind) => Len(recs) < cap),
              !.cursor      = page.endCursor,
              !.retryCount  = 0 ]

\* OnError raising the last error once the retries are used up
OnErrorRaisingWhenExhausted(kind, st, resp) ==
  LET rc == st.retryCount + 1 IN
  IF RethrowsFatal(kind)
  THEN IF resp = "retryable" /\ rc < maxRetries(kind)
       THEN [st EXCEPT !.retryCount = rc]
       ELSE [st EXCEPT !.retryCount = rc, !.status = "raised"]
  ELSE IF rc >= maxRetries(kind)
       THEN [st EXCEPT !.retryCount = rc, !.status = "raised"]
       ELSE [st EXCEPT !.retryCount = rc]

\* OnError losing the cursor, so that the retry starts from the first page
OnErrorLosingCursor(kind, st, resp) ==
  LET rc == st.retryCount + 1 IN
  IF RethrowsFatal(kind)
  THEN IF resp = "retryable" /\ rc < maxRetries(kind)
       THEN [st EXCEPT !.retryCount = rc, !.cursor = 0]
       ELSE IF rc >= maxRetries(kind)
            THEN [st EXCEPT !.retryCount = rc, !.status = "returned"]
            ELSE [st EXCEPT !.retryCount = rc, !.status = "raised"]
  ELSE IF rc >= maxRetries(kind)
       THEN [st EXCEPT !.retryCount = rc, !.status = "returned"]
       ELSE [st EXCEPT !.retryCount = rc, !.cursor = 0]

\* catch-block
OnError(kind, st, resp) ==
  LET rc == st.retryCount + 1 IN
  IF RethrowsFatal(kind)
  THEN IF resp = "retryable" /\ rc < maxRetries(kind)
       THEN [st EXCEPT !.retryCount = rc]
       ELSE IF rc >= maxRetries(kind)
            THEN [st EXCEPT !.retryCount = rc, !.status = "returned"]
            ELSE [st EXCEPT !.retryCount = rc, !.status = "raised"]
  ELSE IF rc >= maxRetries(kind)
       THEN [st EXCEPT !.retryCount = rc, !.status = "returned"]
       ELSE [st EXCEPT !.retryCount = rc]

\* falling out of the while loop returns the accumulated records
LoopExit(kind, cap, st) ==
  IF st.status = "running" /\ ~LoopGuard(kind, cap, st)
  THEN [st EXCEPT !.status = "returned"]
  ELSE st

\* one iteration of the loop: a page request and the handling of its response
FetchIter(kind, cap, M, st, resp) ==
  LET body ==
        CASE resp = "ok" ->
               OnSuccess(kind, cap, st,
                         UpstreamPage(M, PageFirst(kind, cap, st), st.cursor))
          [] resp = "noEdges" -> [st EXCEPT !.status = "returned"]
          [] OTHER -> OnError(kind, st, resp)
  IN LoopExit(kind, cap, body)

\* the request log entry of one iteration
CallEntry(kind, cap, M, st, resp) ==
  [ after |-> st.cursor, first |-> PageFirst(kind, cap, st), resp |-> resp ]


(***************************************************************************)
(* A whole fetch against scripted upstream responses: the responses of     *)
(* `script` in order, then pages without error.                            *)
(***************************************************************************)
RECURSIVE RunFetch(_, _, _, _, _, _)
RunFetch(kind, cap, M, st, log, script) ==
  IF st.status # "running"
  THEN [st |-> st, log |-> log]
  ELSE LET resp == IF script = <<>> THEN "ok" ELSE Head(script)
           rest == IF script = <<>> THEN <<>> ELSE Tail(script)
       IN RunFetch(kind, cap, M,
                   FetchIter(kind, cap, M, st, resp),
                   Append(log, CallEntry(kind, cap, M, st, resp)),
                   rest)

(***************************************************************************)
(* State                                                                   *)
(***************************************************************************)
VARIABLES
  \* ---- one paginated fetch (FetchSpec) ----
  fkind,        \* which fetch method runs
  fcap,         \* its record cap (maxOrders / maxProducts / maxCustomers)
  fM,           \* size of the upstream dataset
  fst,          \* the locals of the loop
  callLog,      \* the page requests issued so far, in order
  \* ---- the orchestrator (Spec) ----
  isRunning,    \* ShopifySchedulerService.isRunning
  lastSyncTime, \* ShopifySchedulerService.lastSyncTime (0 = null)
  syncCount,    \* ShopifySchedulerService.syncCount
  cache,        \* the cache behind RedisService: key -> [value, ttl]
  cacheErrors,  \* backend errors raised by the cache so far
  inv,          \* the invocations of syncShopifyData in progress
  expected,     \* failed cycles since the last Success or reset
  last,         \* the operation that settled last, as its caller saw it
  \* ---- the other users of the cache ----
  gos,          \* a call of RedisService.getOrSet in progress
  clock,        \* wall-clock time and the cron schedule of the sync job
  mon,          \* a run of HealthCheckService.performHealthCheck
  walk,         \* the calls in progress below an entry point
  qry,          \* a call of ShopifyGraphQLService.executeQuery
  rd,           \* a cache-aside read of AnalyticsService in progress
  wipe,         \* the emergency wipes so far and where the last one fell
  opt,          \* a run of DataCleanupService.optimizeCache
  prb,          \* the cache probes of the health checks in progress
  rt            \* a value stored through RedisService and what reads return

fetchVars == <<fkind, fcap, fM, fst, callLog>>
schedVars == <<isRunning, lastSyncTime, syncCount, cache, cacheErrors, inv,
               expected, last>>
lateVars == <<opt, prb, rt>>
restVars == <<qry, rd, wipe, opt, prb, rt>>
auxVars == <<gos, clock, mon, walk, qry, rd, wipe, opt, prb, rt>>
vars == <<fkind, fcap, fM, fst, callLog,
          isRunning, lastSyncTime, syncCount, cache, cacheErrors, inv,
          expected, last, gos, clock, mon, walk, qry, rd, wipe, opt, prb, rt>>

\* the parts of the state a specification does not use stay as they are
NoCall == [pc |-> "idle"]
LateIdle == opt = NoCall /\ prb = NoCall /\ rt = NoCall
RestIdle == qry = NoCall /\ rd = NoCall /\ wipe = NoCall /\ LateIdle
AuxIdle ==
  gos = NoCall /\ clock = NoCall /\ mon = NoCall /\ walk = NoCall /\ RestIdle

(***************************************************************************)
(* FetchSpec: one paginated fetch, page request by page request            *)
(***************************************************************************)
FetchInit ==
  /\ fkind \in FetchKinds
  /\ fM \in 0..MaxRecords
  /\ fcap \in IF Capped(fkind) THEN Caps ELSE {0}
  /\ fst = LoopExit(fkind, fcap, FetchStart)
  /\ callLog = <<>>
  /\ isRunning = FALSE /\ lastSyncTime = 0 /\ syncCount = 0
  /\ cache = <<>> /\ cacheErrors = 0 /\ inv = <<>>
  /\ expected = 0 /\ last = <<>>
  /\ AuxIdle

\* a page request answered with `resp`
FetchPage(resp) ==
  /\ fst.status = "running"
  /\ fst' = FetchIter(fkind, fcap, fM, fst, resp)
  /\ callLog' = Append(callLog, CallEntry(fkind, fcap, fM, fst, resp))
  /\ UNCHANGED <<fkind, fcap, fM, schedVars, auxVars>>

FetchPageOk == FetchPage("ok")
FetchPageNoEdges == FetchPage("noEdges")
FetchPageRetryable == FetchPage("retryable")
FetchPageFatal == FetchPage("fatal")

FetchNext ==
  \/ FetchPageOk
  \/ FetchPageNoEdges
  \/ FetchPageRetryable
  \/ FetchPageFatal

FetchSpec == FetchInit /\ [][FetchNext]_vars

\* every page request eventually returns or raises
FairFetchSpec == FetchSpec /\ WF_vars(FetchNext)

(***************************************************************************)
(* The cache behind RedisService                                           *)
(***************************************************************************)
\* main.ts:188  config.cache.ttlSeconds, 300 by default
defaultTtl == 300

\* a set that ignores the options it is given
RedisSetIgnoringTtl(c, key, value, ttl) ==
  [k \in DOMAIN c \cup {key} |->
     IF k = key THEN [value |-> value, ttl |-> defaultTtl] ELSE c[k]]

\* a set that hands the TTL it is given to the store, also when there is none
RedisSetWithoutDefault(c, key, value, ttl) ==
  [k \in DOMAIN c \cup {key} |->
     IF k = key THEN [value |-> value, ttl |-> ttl] ELSE c[k]]

\* RedisService.set: options?.ttl || this.defaultTtl (0 = no ttl given)
RedisSet(c, key, value, ttl) ==
  LET t == IF ttl = 0 THEN defaultTtl ELSE ttl IN
  [k \in DOMAIN c \cup {key} |->
     IF k = key THEN [value |-> value, ttl |-> t] ELSE c[k]]

\* RedisService.del
RedisDel(c, key) == [k \in DOMAIN c \ {key} |-> c[k]]

\* RedisService.get for a numeric entry: value || null; a backend error is
\* logged and null is returned (0 stands for null)
RedisGetNumber(c, key, ok) ==
  IF ok /\ key \in DOMAIN c THEN c[key].value ELSE 0

\* the keys of the failure bookkeeping: the failure count as named by
\* handleSyncFailure, by getSyncStatus and by resetFailureCount
failureCountKey == "sync:failure_count"
statusFailureCountKey == "sync:failure_count"
resetMisspelledKey == "sync:failure-count"
resetFailureCountKey == "sync:failure_count"
lastErrorKey == "sync:last_error"
aggregatedKey == "sync:metrics:aggregated"
lastSyncKey == "shopify:last_sync"
MetricKey(n) == "sync:metrics:" \o ToString(n)

\* storeSyncMetrics: existing aggregate or the zero aggregate
ExistingAggregate(c, ok) ==
  IF ok /\ aggregatedKey \in DOMAIN c
  THEN c[aggregatedKey].value
  ELSE [totalSyncs |-> 0, successfulSyncs |-> 0, failedSyncs |-> 0]

\* counters in which a failed cycle is added to the total only
UpdatedAggregateTotalOnly(existing, success) ==
  [ totalSyncs      |-> existing.totalSyncs + 1,
    successfulSyncs |-> existing.successfulSyncs + (IF success THEN 1 ELSE 0),
    failedSyncs     |-> existing.failedSyncs ]

\* storeSyncMetrics: the counters after this cycle (durations left out)
UpdatedAggregate(existing, success) ==
  [ totalSyncs      |-> existing.totalSyncs + 1,
    successfulSyncs |-> existing.successfulSyncs + (IF success THEN 1 ELSE 0),
    failedSyncs     |-> existing.failedSyncs + (IF success THEN 0 ELSE 1) ]

\* cache writes that all carry the TTL of the first
ReportWritesOneTier ==
  << [key |-> "dashboard:summary",                ttl |-> 60],
     [key |-> "dashboard:sales",                  ttl |-> 60],
     [key |-> "dashboard:customers",              ttl |-> 60],
     [key |-> "dashboard:inventory",              ttl |-> 60],
     [key |-> "dashboard:orders",                 ttl |-> 60],
     [key |-> "shopify:orders:page:1:latest",     ttl |-> 60],
     [key |-> "shopify:products:page:1:latest",   ttl |-> 60],
     [key |-> "shopify:customers:page:1:latest",  ttl |-> 60] >>

\* AnalyticsService.processAndCacheData: the cache writes, in issue order
ReportWrites ==
  << [key |-> "dashboard:summary",                ttl |-> 60],
     [key |-> "dashboard:sales",                  ttl |-> 300],
     [key |-> "dashboard:customers",              ttl |-> 300],
     [key |-> "dashboard:inventory",              ttl |-> 300],
     [key |-> "dashboard:orders",                 ttl |-> 300],
     [key |-> "shopify:orders:page:1:latest",     ttl |-> 600],
     [key |-> "shopify:products:page:1:latest",   ttl |-> 1200],
     [key |-> "shopify:customers:page:1:latest",  ttl |-> 1200] >>

\* the positions in the batch at which the backend may reject a write: the
\* first and the last write stand for the eight
FailingWrites == {1, Len(ReportWrites)}
WritePosition(pending) == Len(ReportWrites) - Len(pending) + 1
MayReject(pending, ok) == ok \/ WritePosition(pending) \in FailingWrites

\* getSyncStatus: consecutiveFailures = get('sync:failure_count') || 0
consecutiveFailures == RedisGetNumber(cache, statusFailureCountKey, TRUE)

(***************************************************************************)
(* The three fetches of a cycle (AnalyticsService.syncShopifyData)         *)
(***************************************************************************)
SyncEntities == {"orders", "products", "customers"}

\* fetchRecentOrders(24), fetchAllProducts(), fetchAllCustomers()
SyncFetchKind(e) ==
  CASE e = "orders"    -> "fetchLimitedOrders"
    [] e = "products"  -> "fetchLimitedProducts"
    [] e = "customers" -> "fetchLimitedCustomers"

SyncFetchCap(e) ==
  CASE e = "orders"    -> 200
    [] e = "products"  -> 300
    [] e = "customers" -> 500

\* upstream dataset sizes and response scripts tried in a cycle
SyncDatasetSizes == {0, MaxRecords}
Scripts == UNION {[1..n -> Responses] : n \in 0..MaxScript}

\* the first n records of the dataset, in cursor order
Prefix(n) == [j \in 1..n |-> j]

\* a run in which every failed request was retryable and was followed by a
\* successful retry, and at least one request failed
Mild(log) ==
  /\ log # <<>>
  /\ \A j \in 1..Len(log) : log[j].resp \in {"ok", "retryable"}
  /\ \E j \in 1..Len(log) : log[j].resp = "retryable"
  /\ log[Len(log)].resp = "ok"

\* a failed request is followed by a request with the same cursor, the
\* records are those of the dataset in order, each once, and the retry
\* counter is 0 after a successful page
Lawful(run) ==
  /\ \A j \in 1..(Len(run.log) - 1) :
        run.log[j].resp \in {"retryable", "fatal"}
          => run.log[j + 1].after = run.log[j].after
  /\ run.st.records = Prefix(Len(run.st.records))
  /\ (run.log # <<>> /\ run.log[Len(run.log)].resp = "ok")
        => run.st.retryCount = 0

\* a fetch that used up its retries on one page and returned the records
\* it had, fewer than the dataset and the cap allow
Truncated(e, M, run) ==
  /\ run.st.status = "returned"
  /\ run.st.retryCount >= maxRetries(SyncFetchKind(e))
  /\ Len(run.st.records) < Min(M, SyncFetchCap(e))

\* what the cycle observes of a fetch: how it settled, whether it recovered
\* from failed requests by retrying, and whether a recovered fetch kept the
\* retry discipline and delivered the whole dataset; whether it was truncated
FetchSummary(e, M, run) ==
  [ status  |-> run.st.status,
    truncated |-> Truncated(e, M, run),
    retried |-> Mild(run.log),
    intact  |-> Mild(run.log) =>
                  /\ run.st.status = "returned"
                  /\ Lawful(run)
                  /\ run.st.records = Prefix(Min(M, SyncFetchCap(e))) ]

(***************************************************************************)
(* Spec: the orchestrator.  An invocation of syncShopifyData (by the cron  *)
(* tick or through triggerManualSync) advances from one await to the next. *)
(***************************************************************************)
Inv == 1..MaxInvocations

NoAggregate == [totalSyncs |-> 0, successfulSyncs |-> 0, failedSyncs |-> 0]

Idle ==
  [ pc |-> "idle", cycle |-> 0,
    fetched |-> [e \in SyncEntities |-> "none"],
    retried |-> FALSE, intact |-> TRUE, truncated |-> FALSE,
    pending |-> <<>>, success |-> FALSE, error |-> "none",
    metricsNo |-> 0, existing |-> NoAggregate,
    newFailureCount |-> 0, swallowed |-> FALSE, outcome |-> "none" ]

\* no operation has settled since the running cycle started
NoneSettled ==
  [ op |-> "none", outcome |-> "none", result |-> "none", error |-> "none",
    swallowed |-> FALSE, retried |-> FALSE, intact |-> TRUE,
    truncated |-> FALSE, prior |-> 0 ]

Init ==
  /\ isRunning = FALSE
  /\ lastSyncTime = 0
  /\ syncCount = 0
  /\ cache = [k \in {} |-> 0]
  /\ cacheErrors = 0
  /\ inv = [i \in Inv |-> Idle]
  /\ expected = 0
  /\ last = NoneSettled
  /\ fkind = "fetchLimitedOrders" /\ fcap = 200 /\ fM = 0
  /\ fst = FetchStart /\ callLog = <<>>
  /\ AuxIdle

\* a guard that lets every invocation through
GuardOpen(running) == FALSE

\* if (this.isRunning) return;
Guard(running) == running

\* a cycle end that leaves the flag as it is
RunningLeftAsIs(running) == running

\* finally { this.isRunning = false; }
RunningAfterFinally(running) == FALSE

\* a storeSyncMetrics that lets the cache error through
storeSyncMetricsRethrow(exc) == exc

\* catch of storeSyncMetrics: is the exception still in flight after it?
storeSyncMetricsCatch(exc) == FALSE

\* catch of handleSyncFailure: is the exception still in flight after it?
handleSyncFailureCatch(exc) == FALSE

\* failed cycles since the last Success, as the failure-counter law counts
\* them: a cycle fails when its body raises or when its probe fails
ExpectedAfter(outcome) ==
  CASE outcome = "Success" -> 0
    [] outcome \in {"Failure", "ProbeFailed"} -> expected + 1
    [] OTHER -> expected

\* the outcomes a cache call may have: it may raise while the budget of
\* backend errors lasts
CacheOutcomes == IF cacheErrors < MaxCacheErrors THEN {TRUE, FALSE} ELSE {TRUE}
CountError(ok) == cacheErrors' = IF ok THEN cacheErrors ELSE cacheErrors + 1

\* what the caller and the logs see of a settled invocation
Settled(rec, res) ==
  [NoneSettled EXCEPT !.op = "sync", !.result = res, !.outcome = rec.outcome,
                      !.error = rec.error, !.swallowed = rec.swallowed,
                      !.retried = rec.retried, !.intact = rec.intact,
                      !.truncated = rec.truncated]

\* an invocation moves on to its next await
Step(i, rec, c) ==
  /\ inv' = [inv EXCEPT ![i] = rec]
  /\ cache' = c
  /\ UNCHANGED <<isRunning, syncCount, expected, last, fetchVars, auxVars>>

\* the finally block runs and the invocation settles with `res`
End(i, rec, c, res) ==
  /\ isRunning' = RunningAfterFinally(isRunning)
  /\ inv' = [inv EXCEPT ![i] = Idle]
  /\ last' = Settled(rec, res)
  /\ cache' = c
  /\ expected' = ExpectedAfter(rec.outcome)
  /\ UNCHANGED <<syncCount, fetchVars, auxVars>>

\* storeSyncMetrics up to its first await
StartStoreMetrics(rec, success, msg) ==
  [rec EXCEPT !.pc = "metricsSet", !.success = success, !.error = msg,
              !.outcome = IF success THEN "Success" ELSE "Failure",
              !.metricsNo = syncCount]

\* catch (error) of syncShopifyData, up to the first await of storeSyncMetrics
EnterCatch(i, rec, c, msg) ==
  /\ Step(i, StartStoreMetrics(rec, FALSE, msg), c)
  /\ UNCHANGED lastSyncTime

\* after storeSyncMetrics: the success path ends, the catch block goes on
\* with handleSyncFailure
AfterStoreMetrics(i, rec, c) ==
  /\ IF rec.success
     THEN End(i, rec, c, "returned")
     ELSE Step(i, [rec EXCEPT !.pc = "failureGet"], c)
  /\ UNCHANGED lastSyncTime

\* a cache call inside storeSyncMetrics raised
StoreMetricsRaised(i, rec, c) ==
  IF storeSyncMetricsCatch(TRUE)
  THEN IF rec.success
       THEN EnterCatch(i, rec, c, "cache")
       ELSE End(i, rec, c, "raised") /\ UNCHANGED lastSyncTime
  ELSE AfterStoreMetrics(i, [rec EXCEPT !.swallowed = TRUE], c)

\* a cache call inside handleSyncFailure raised
HandleFailureRaised(i, rec, c) ==
  /\ IF handleSyncFailureCatch(TRUE)
     THEN End(i, rec, c, "raised")
     ELSE End(i, [rec EXCEPT !.swallowed = TRUE], c, "returned")
  /\ UNCHANGED lastSyncTime

\* a syncShopifyData whose turned-away invocation waits for the running
\* cycle instead of returning
syncShopifyDataDeferring(i) ==
  /\ inv[i].pc = "idle"
  /\ \A j \in 1..(i - 1) : inv[j].pc # "idle"
  /\ IF Guard(isRunning)
     THEN /\ inv' = [inv EXCEPT ![i] = [Idle EXCEPT !.pc = "deferred"]]
          /\ last' = [NoneSettled EXCEPT !.op = "sync", !.outcome = "Skipped",
                                         !.result = "returned"]
          /\ UNCHANGED <<isRunning, syncCount>>
     ELSE /\ syncCount < MaxSyncs
          /\ isRunning' = TRUE
          /\ syncCount' = syncCount + 1
          /\ inv' = [inv EXCEPT ![i] = [Idle EXCEPT !.pc = "healthCheck",
                                          !.cycle = syncCount + 1]]
          /\ last' = NoneSettled
  /\ UNCHANGED <<lastSyncTime, cache, cacheErrors, expected, fetchVars, auxVars>>

\* syncShopifyData, lines 30-44: the guard, the flag, the counter and the
\* call of healthCheck.  An invocation that is turned away settles at once.
syncShopifyData(i) ==
  /\ inv[i].pc = "idle"
  /\ \A j \in 1..(i - 1) : inv[j].pc # "idle"
  /\ IF Guard(isRunning)
     THEN /\ last' = [NoneSettled EXCEPT !.op = "sync", !.outcome = "Skipped",
                                         !.result = "returned"]
          /\ UNCHANGED <<isRunning, syncCount, inv>>
     ELSE /\ syncCount < MaxSyncs
          /\ isRunning' = TRUE
          /\ syncCount' = syncCount + 1
          /\ inv' = [inv EXCEPT ![i] = [Idle EXCEPT !.pc = "healthCheck",
                                          !.cycle = syncCount + 1]]
          /\ last' = NoneSettled
  /\ UNCHANGED <<lastSyncTime, cache, cacheErrors, expected, fetchVars, auxVars>>

\* triggerManualSync: logs and awaits syncShopifyData
triggerManualSync(i) == syncShopifyData(i)

\* a cycle that goes on to its body whatever healthCheck answers
HealthCheckReturnIgnoringProbe(i, healthy) ==
  /\ inv[i].pc = "healthCheck"
  /\ Step(i, [inv[i] EXCEPT !.pc = "setLastSync"], cache)
  /\ UNCHANGED <<lastSyncTime, cacheErrors>>

\* healthCheck answers; on success AnalyticsService.syncShopifyData writes
\* the last-sync stamp
HealthCheckReturn(i, healthy) ==
  /\ inv[i].pc = "healthCheck"
  /\ IF healthy
     THEN Step(i, [inv[i] EXCEPT !.pc = "setLastSync"], cache)
     ELSE End(i, [inv[i] EXCEPT !.outcome = "ProbeFailed"], cache, "returned")
  /\ UNCHANGED <<lastSyncTime, cacheErrors>>

\* the write of shopify:last_sync completes; the three fetches start
SetLastSyncReturn(i, ok) ==
  /\ inv[i].pc = "setLastSync"
  /\ CountError(ok)
  /\ IF ok
     THEN /\ Step(i, [inv[i] EXCEPT !.pc = "fetching",
                                    !.fetched = [e \in SyncEntities |-> "inflight"]],
                  RedisSet(cache, lastSyncKey, inv[i].cycle, 0))
          /\ UNCHANGED lastSyncTime
     ELSE EnterCatch(i, inv[i], cache, "cache")

\* what a fetch of entity e can settle with, over the dataset sizes and the
\* response scripts
FetchOutcomes ==
  [e \in SyncEntities |->
     { FetchSummary(e, M,
         RunFetch(SyncFetchKind(e), SyncFetchCap(e), M,
                  LoopExit(SyncFetchKind(e), SyncFetchCap(e), FetchStart),
                  <<>>, script)) :
       M \in SyncDatasetSizes, script \in Scripts }]

\* a cycle that takes a truncated fetch result for a failed fetch
FetchReturnRejectingTruncated(i, e, sum, aggOk) ==
  /\ inv[i].pc = "fetching"
  /\ inv[i].fetched[e] = "inflight"
  /\ LET rec == [inv[i] EXCEPT !.fetched[e] = sum.status,
                               !.retried = @ \/ sum.retried,
                               !.intact = @ /\ sum.intact,
                               !.truncated = @ \/ sum.truncated]
     IN IF sum.status = "raised"
        THEN EnterCatch(i, rec, cache, "upstream")
        ELSE IF sum.truncated
        THEN EnterCatch(i, rec, cache, "truncated")
        ELSE IF \E o \in SyncEntities : rec.fetched[o] = "inflight"
             THEN aggOk /\ Step(i, rec, cache) /\ UNCHANGED lastSyncTime
             ELSE IF aggOk
                  THEN /\ Step(i, [rec EXCEPT !.pc = "caching",
                                              !.pending = ReportWrites], cache)
                       /\ UNCHANGED lastSyncTime
                  ELSE EnterCatch(i, rec, cache, "aggregation")
  /\ UNCHANGED cacheErrors

\* one of the three fetches settles.  A raising fetch rejects the
\* Promise.all (the fetches still in flight run on, their results are
\* dropped); when all three have returned the aggregation runs and the
\* report writes are issued.
FetchReturn(i, e, sum, aggOk) ==
  /\ inv[i].pc = "fetching"
  /\ inv[i].fetched[e] = "inflight"
  /\ LET rec == [inv[i] EXCEPT !.fetched[e] = sum.status,
                               !.retried = @ \/ sum.retried,
                               !.intact = @ /\ sum.intact,
                               !.truncated = @ \/ sum.truncated]
     IN IF sum.status = "raised"
        THEN EnterCatch(i, rec, cache, "upstream")
        ELSE IF \E o \in SyncEntities : rec.fetched[o] = "inflight"
             THEN aggOk /\ Step(i, rec, cache) /\ UNCHANGED lastSyncTime
             ELSE IF aggOk
                  THEN /\ Step(i, [rec EXCEPT !.pc = "caching",
                                              !.pending = ReportWrites], cache)
                       /\ UNCHANGED lastSyncTime
                  ELSE EnterCatch(i, rec, cache, "aggregation")
  /\ UNCHANGED cacheErrors

\* the next report write completes; after the last one the cycle stamps
\* lastSyncTime and stores its metrics.  A raising write rejects the
\* Promise.all: the catch block starts while the writes behind it are
\* still in flight.
CacheWriteReturn(i, ok) ==
  /\ inv[i].pc = "caching"
  /\ MayReject(inv[i].pending, ok)
  /\ CountError(ok)
  /\ LET w == Head(inv[i].pending)
         rec == [inv[i] EXCEPT !.pending = Tail(inv[i].pending)]
     IN IF ~ok
        THEN EnterCatch(i, rec, cache, "cache")
        ELSE LET c == RedisSet(cache, w.key, inv[i].cycle, w.ttl) IN
             IF rec.pending # <<>>
             THEN Step(i, rec, c) /\ UNCHANGED lastSyncTime
             ELSE /\ Step(i, StartStoreMetrics(rec, TRUE, "none"), c)
                  /\ lastSyncTime' = inv[i].cycle

\* a report write left in flight by a rejected batch completes.  The cache
\* answers the calls of a cycle in the order they were issued, so these
\* writes complete before the cache calls of the catch block do.
BackgroundWriteReturn(i, ok) ==
  /\ inv[i].pc = "metricsSet"
  /\ inv[i].pending # <<>>
  /\ MayReject(inv[i].pending, ok)
  /\ CountError(ok)
  /\ LET w == Head(inv[i].pending) IN
     Step(i, [inv[i] EXCEPT !.pending = Tail(inv[i].pending)],
          IF ok THEN RedisSet(cache, w.key, inv[i].cycle, w.ttl) ELSE cache)
  /\ UNCHANGED lastSyncTime

\* storeSyncMetrics: the write of sync:metrics:<n> completes
MetricsSetReturn(i, ok) ==
  /\ inv[i].pc = "metricsSet"
  /\ inv[i].pending = <<>>
  /\ CountError(ok)
  /\ IF ok
     THEN /\ Step(i, [inv[i] EXCEPT !.pc = "metricsGet"],
                  RedisSet(cache, MetricKey(inv[i].metricsNo),
                           [success |-> inv[i].success,
                            syncCount |-> inv[i].metricsNo,
                            errorMessage |-> inv[i].error], 3600))
          /\ UNCHANGED lastSyncTime
     ELSE StoreMetricsRaised(i, inv[i], cache)

\* storeSyncMetrics: the read of the aggregate completes (a raising read is
\* answered with null by RedisService.get)
MetricsGetReturn(i, ok) ==
  /\ inv[i].pc = "metricsGet"
  /\ CountError(ok)
  /\ Step(i, [inv[i] EXCEPT !.pc = "metricsAgg",
                            !.existing = UpdatedAggregate(
                                ExistingAggregate(cache, ok), inv[i].success)],
          cache)
  /\ UNCHANGED lastSyncTime

\* storeSyncMetrics: the write of the aggregate completes
MetricsAggReturn(i, ok) ==
  /\ inv[i].pc = "metricsAgg"
  /\ CountError(ok)
  /\ IF ok
     THEN AfterStoreMetrics(i, inv[i],
                            RedisSet(cache, aggregatedKey, inv[i].existing, 86400))
     ELSE StoreMetricsRaised(i, inv[i], cache)

\* handleSyncFailure: the read of the failure count completes
FailureGetReturn(i, ok) ==
  /\ inv[i].pc = "failureGet"
  /\ CountError(ok)
  /\ Step(i, [inv[i] EXCEPT !.pc = "failureSet",
                            !.newFailureCount =
                                RedisGetNumber(cache, failureCountKey, ok) + 1],
          cache)
  /\ UNCHANGED lastSyncTime

\* handleSyncFailure: the write of the failure count completes
FailureSetReturn(i, ok) ==
  /\ inv[i].pc = "failureSet"
  /\ CountError(ok)
  /\ IF ok
     THEN /\ Step(i, [inv[i] EXCEPT !.pc = "lastErrorSet"],
                  RedisSet(cache, failureCountKey, inv[i].newFailureCount, 3600))
          /\ UNCHANGED lastSyncTime
     ELSE HandleFailureRaised(i, inv[i], cache)

\* handleSyncFailure: the write of sync:last_error completes
LastErrorSetReturn(i, ok) ==
  /\ inv[i].pc = "lastErrorSet"
  /\ CountError(ok)
  /\ IF ok
     THEN /\ End(i, inv[i],
                 RedisSet(cache, lastErrorKey,
                          [error |-> inv[i].error,
                           failureCount |-> inv[i].newFailureCount], 86400),
                 "returned")
          /\ UNCHANGED lastSyncTime
     ELSE HandleFailureRaised(i, inv[i], cache)

\* resetFailureCount: del('sync:failure_count'); a raising del propagates
\* to the caller
resetFailureCount(ok) ==
  /\ CountError(ok)
  /\ IF ok
     THEN /\ cache' = RedisDel(cache, resetFailureCountKey)
          /\ expected' = 0
          /\ last' = [NoneSettled EXCEPT !.op = "reset", !.result = "returned",
                                         !.prior = consecutiveFailures]
     ELSE UNCHANGED <<cache, expected, last>>
  /\ UNCHANGED <<isRunning, lastSyncTime, syncCount, inv, fetchVars, auxVars>>

Next ==
  \/ \E i \in Inv : syncShopifyData(i)
  \/ \E i \in Inv : triggerManualSync(i)
  \/ \E i \in Inv, healthy \in BOOLEAN : HealthCheckReturn(i, healthy)
  \/ \E i \in Inv, ok \in CacheOutcomes : SetLastSyncReturn(i, ok)
  \/ \E i \in Inv, e \in SyncEntities, aggOk \in BOOLEAN :
        \E sum \in FetchOutcomes[e] : FetchReturn(i, e, sum, aggOk)
  \/ \E i \in Inv, ok \in CacheOutcomes : CacheWriteReturn(i, ok)
  \/ \E i \in Inv, ok \in CacheOutcomes : BackgroundWriteReturn(i, ok)
  \/ \E i \in Inv, ok \in CacheOutcomes : MetricsSetReturn(i, ok)
  \/ \E i \in Inv, ok \in CacheOutcomes : MetricsGetReturn(i, ok)
  \/ \E i \in Inv, ok \in CacheOutcomes : MetricsAggReturn(i, ok)
  \/ \E i \in Inv, ok \in CacheOutcomes : FailureGetReturn(i, ok)
  \/ \E i \in Inv, ok \in CacheOutcomes : FailureSetReturn(i, ok)
  \/ \E i \in Inv, ok \in CacheOutcomes : LastErrorSetReturn(i, ok)
  \/ \E ok \in CacheOutcomes : resetFailureCount(ok)

Spec == Init /\ [][Next]_vars

\* a call awaited by a running cycle returns or raises
CycleStep ==
  \E i \in Inv :
    \/ \E healthy \in BOOLEAN : HealthCheckReturn(i, healthy)
    \/ \E e \in SyncEntities, aggOk \in BOOLEAN :
          \E sum \in FetchOutcomes[e] : FetchReturn(i, e, sum, aggOk)
    \/ \E ok \in CacheOutcomes :
          \/ SetLastSyncReturn(i, ok)
          \/ CacheWriteReturn(i, ok)
          \/ BackgroundWriteReturn(i, ok)
          \/ MetricsSetReturn(i, ok)
          \/ MetricsGetReturn(i, ok)
          \/ MetricsAggReturn(i, ok)
          \/ FailureGetReturn(i, ok)
          \/ FailureSetReturn(i, ok)
          \/ LastErrorSetReturn(i, ok)

\* every upstream and cache call of a cycle eventually returns or raises
FairSpec == Spec /\ WF_vars(CycleStep)

(***************************************************************************)
(* WipeSpec: the sync cycle with the emergency wipe at any of its awaits    *)
(***************************************************************************)
\* RedisService.clearAll: cacheManager.reset() empties the store
clearAll(c) == [k \in {} |-> 0]

\* the position, in the batch of processAndCacheData, of the first report
\* write of invocation record rec that has not completed yet
NextReportWrite(rec) ==
  IF rec.pc \in {"healthCheck", "setLastSync", "fetching"} THEN 1
  ELSE IF rec.pc = "caching" THEN WritePosition(rec.pending)
  ELSE Len(ReportWrites) + 1

\* the cycle in flight, 0 when there is none
RunningCycle ==
  IF \E i \in Inv : inv[i].pc # "idle"
  THEN (CHOOSE i \in Inv : inv[i].pc # "idle")
  ELSE 0

\* an emergency cleanup whose reset also rejects the call the running cycle
\* is waiting for
performEmergencyCleanupAborting(ok) ==
  /\ (IF wipe = NoCall THEN 0 ELSE wipe.count) < MaxWipes
  /\ CountError(ok)
  /\ cache' = IF ok THEN clearAll(cache) ELSE cache
  /\ LET r == RunningCycle IN
     /\ wipe' = [pc |-> "done",
                 count |-> (IF wipe = NoCall THEN 0 ELSE wipe.count) + 1,
                 wiped |-> ok,
                 cycle |-> IF r = 0 THEN 0 ELSE inv[r].cycle,
                 at |-> IF r = 0 THEN "idle" ELSE inv[r].pc,
                 position |-> IF r = 0 THEN 0 ELSE NextReportWrite(inv[r])]
     /\ inv' = IF r # 0 /\ ok /\ inv[r].pc \in {"setLastSync", "fetching", "caching"}
               THEN [inv EXCEPT ![r] = StartStoreMetrics(inv[r], FALSE, "cache")]
               ELSE inv
  /\ UNCHANGED <<isRunning, lastSyncTime, syncCount, expected, last,
                 fetchVars, gos, clock, mon, walk, qry, rd, lateVars>>

\* performEmergencyCleanup: await clearAll(); a raising clearAll is logged
\* and swallowed.  It runs between any two steps of a cycle.
performEmergencyCleanup(ok) ==
  /\ (IF wipe = NoCall THEN 0 ELSE wipe.count) < MaxWipes
  /\ CountError(ok)
  /\ cache' = IF ok THEN clearAll(cache) ELSE cache
  /\ LET r == RunningCycle IN
     wipe' = [pc |-> "done",
              count |-> (IF wipe = NoCall THEN 0 ELSE wipe.count) + 1,
              wiped |-> ok,
              cycle |-> IF r = 0 THEN 0 ELSE inv[r].cycle,
              at |-> IF r = 0 THEN "idle" ELSE inv[r].pc,
              position |-> IF r = 0 THEN 0 ELSE NextReportWrite(inv[r])]
  /\ UNCHANGED <<isRunning, lastSyncTime, syncCount, inv, expected, last,
                 fetchVars, gos, clock, mon, walk, qry, rd, lateVars>>

WipeNext ==
  \/ Next
  \/ \E ok \in CacheOutcomes : performEmergencyCleanup(ok)

WipeSpec == Init /\ [][WipeNext]_vars

(***************************************************************************)
(* CacheAsideSpec: RedisService.getOrSet, one step per await                *)
(***************************************************************************)
\* keys and options the callers pass; ttl 0 stands for no options
AsideKeys == {"dashboard:summary", "dashboard:sales"}
AsideTtls == {0, 60}
\* values: 0 is a falsy value, which RedisService.get turns into null
FactoryValues == {0, 1, 2}
CachedValues == {1, 2}

\* the cache contents a call may find
AsideCaches ==
  UNION { [K -> [value : CachedValues, ttl : {defaultTtl}]] :
          K \in SUBSET AsideKeys }

CacheAsideInit ==
  /\ cache \in AsideCaches
  /\ gos = NoCall /\ clock = NoCall /\ mon = NoCall /\ walk = NoCall
  /\ RestIdle
  /\ isRunning = FALSE /\ lastSyncTime = 0 /\ syncCount = 0
  /\ cacheErrors = 0 /\ inv = <<>> /\ expected = 0 /\ last = <<>>
  /\ fkind = "fetchLimitedOrders" /\ fcap = 200 /\ fM = 0
  /\ fst = FetchStart /\ callLog = <<>>

asideFrame ==
  UNCHANGED <<fetchVars, isRunning, lastSyncTime, syncCount, cacheErrors,
              inv, expected, last, clock, mon, walk, restVars>>

\* a getOrSet whose catch block rethrows
getOrSetCatchRethrow(g) == [g EXCEPT !.pc = "done", !.result = "raised"]

\* catch (error) of getOrSet: return await factory()
getOrSetCatch(g) == [g EXCEPT !.pc = "fallback"]

\* getOrSet is called: the read is issued
getOrSet(key, ttl) ==
  /\ gos.pc \in {"idle", "done"}
  /\ gos' = [ pc |-> "get", key |-> key, ttl |-> ttl, value |-> 0,
              factoryCalls |-> 0, cacheRaised |-> FALSE,
              factoryRaised |-> FALSE, result |-> "none" ]
  /\ UNCHANGED cache
  /\ asideFrame

\* this.get(key) answers: a hit is returned, a miss (or a backend error,
\* which get turns into null) goes on to the factory
GetOrSetGetReturn(ok) ==
  /\ gos.pc = "get"
  /\ LET v == RedisGetNumber(cache, gos.key, ok)
         g == [gos EXCEPT !.cacheRaised = ~ok, !.value = v]
     IN gos' = IF v # 0
               THEN [g EXCEPT !.pc = "done", !.result = "returned"]
               ELSE [g EXCEPT !.pc = "factory"]
  /\ UNCHANGED cache
  /\ asideFrame

\* the factory of the miss path settles
GetOrSetFactoryReturn(v, ok) ==
  /\ gos.pc = "factory"
  /\ LET g == [gos EXCEPT !.factoryCalls = @ + 1] IN
     gos' = IF ok
            THEN [g EXCEPT !.pc = "set", !.value = v]
            ELSE getOrSetCatch([g EXCEPT !.factoryRaised = TRUE])
  /\ UNCHANGED cache
  /\ asideFrame

\* this.set(key, value, options) settles
GetOrSetSetReturn(ok) ==
  /\ gos.pc = "set"
  /\ IF ok
     THEN /\ cache' = RedisSet(cache, gos.key, gos.value, gos.ttl)
          /\ gos' = [gos EXCEPT !.pc = "done", !.result = "returned"]
     ELSE /\ UNCHANGED cache
          /\ gos' = getOrSetCatch([gos EXCEPT !.cacheRaised = TRUE])
  /\ asideFrame

\* the factory called from the catch block settles
GetOrSetFallbackReturn(v, ok) ==
  /\ gos.pc = "fallback"
  /\ LET g == [gos EXCEPT !.factoryCalls = @ + 1, !.pc = "done"] IN
     gos' = IF ok
            THEN [g EXCEPT !.value = v, !.result = "returned"]
            ELSE [g EXCEPT !.factoryRaised = TRUE, !.result = "raised"]
  /\ UNCHANGED cache
  /\ asideFrame

CacheAsideNext ==
  \/ \E key \in AsideKeys, ttl \in AsideTtls : getOrSet(key, ttl)
  \/ \E ok \in BOOLEAN : GetOrSetGetReturn(ok)
  \/ \E v \in FactoryValues, ok \in BOOLEAN : GetOrSetFactoryReturn(v, ok)
  \/ \E ok \in BOOLEAN : GetOrSetSetReturn(ok)
  \/ \E v \in FactoryValues, ok \in BOOLEAN : GetOrSetFallbackReturn(v, ok)

CacheAsideSpec == CacheAsideInit /\ [][CacheAsideNext]_vars

(***************************************************************************)
(* ScheduleSpec: the sync job on its cron schedule, in wall-clock time.    *)
(* A cache entry holds the time it was written as its value; it is served  *)
(* until its TTL has passed.                                               *)
(***************************************************************************)
\* shopify-scheduler.service.ts:26  @Cron('*/5 * * * *')
syncIntervalSeconds == 300

\* time advances in steps of the shortest TTL the sync job writes
TimeStep == ReportWrites[1].ttl

\* RedisService.get at time `now`: the cache manager serves an entry for
\* ttl seconds after it was written
Hit(k) == k \in DOMAIN cache /\ clock.now < cache[k].value + cache[k].ttl

RECURSIVE WriteAll(_, _, _)
\* the writes of `writes`, all accepted, at time `at`
WriteAll(c, writes, at) ==
  IF writes = <<>> THEN c
  ELSE WriteAll(RedisSet(c, Head(writes).key, at, Head(writes).ttl),
                Tail(writes), at)

ScheduleInit ==
  /\ clock = [ pc |-> "waiting", now |-> 0, due |-> 0, ticks |-> 0,
               started |-> 0, lastSuccessDue |-> -1, failedSince |-> 0 ]
  /\ cache = [k \in {} |-> 0]
  /\ gos = NoCall /\ mon = NoCall /\ walk = NoCall /\ RestIdle
  /\ isRunning = FALSE /\ lastSyncTime = 0 /\ syncCount = 0
  /\ cacheErrors = 0 /\ inv = <<>> /\ expected = 0 /\ last = <<>>
  /\ fkind = "fetchLimitedOrders" /\ fcap = 200 /\ fM = 0
  /\ fst = FetchStart /\ callLog = <<>>

scheduleFrame ==
  UNCHANGED <<fetchVars, lastSyncTime, cacheErrors, inv, expected, last,
              gos, mon, walk, restVars>>

\* wall-clock time passes, up to the next cron tick while the job waits and
\* for as long as a cycle may take while it runs
TimePasses ==
  /\ IF clock.pc = "waiting"
     THEN clock.now + TimeStep <= clock.due
     ELSE clock.now + TimeStep <= clock.started + MaxCycleSteps * TimeStep
  /\ clock' = [clock EXCEPT !.now = @ + TimeStep]
  /\ UNCHANGED <<cache, isRunning, syncCount>>
  /\ scheduleFrame

\* the cron expression fires: syncShopifyData starts a cycle
CronFires ==
  /\ clock.pc = "waiting" /\ clock.now = clock.due
  /\ clock.ticks < MaxTicks
  /\ ~Guard(isRunning)
  /\ isRunning' = TRUE /\ syncCount' = syncCount + 1
  /\ clock' = [clock EXCEPT !.pc = "running", !.started = clock.now,
                            !.ticks = @ + 1,
                            !.due = @ + syncIntervalSeconds]
  /\ UNCHANGED cache
  /\ scheduleFrame

\* the cycle succeeds: the last-sync stamp and the report keys are written
CycleSucceeds ==
  /\ clock.pc = "running"
  /\ cache' = WriteAll(RedisSet(cache, lastSyncKey, clock.now, 0),
                       ReportWrites, clock.now)
  /\ clock' = [clock EXCEPT !.pc = "waiting",
                            !.lastSuccessDue = clock.due - syncIntervalSeconds,
                            !.failedSince = 0]
  /\ isRunning' = RunningAfterFinally(isRunning)
  /\ UNCHANGED syncCount
  /\ scheduleFrame

\* the upstream is out: the probe fails and the cycle writes nothing
CycleFailsOnProbe ==
  /\ clock.pc = "running"
  /\ clock' = [clock EXCEPT !.pc = "waiting", !.failedSince = @ + 1]
  /\ isRunning' = RunningAfterFinally(isRunning)
  /\ UNCHANGED <<cache, syncCount>>
  /\ scheduleFrame

ScheduleNext ==
  \/ TimePasses
  \/ CronFires
  \/ CycleSucceeds
  \/ CycleFailsOnProbe

ScheduleSpec == ScheduleInit /\ [][ScheduleNext]_vars

(***************************************************************************)
(* HealthCheckService: the probes, the overall status and the scheduled     *)
(* health check.                                                            *)
(***************************************************************************)
Statuses == {"pass", "warn", "fail"}

\* the checks of getHealthStatus and of getQuickHealthStatus
CheckNames ==
  {"redis", "shopify_api", "application", "memory", "disk", "dependencies"}
QuickCheckNames == {"redis", "application"}

\* an overall status that looks for warnings before failures
determineOverallStatusWarnFirst(checks) ==
  IF \E n \in DOMAIN checks : checks[n] = "warn" THEN "degraded"
  ELSE IF \E n \in DOMAIN checks : checks[n] = "fail" THEN "unhealthy"
  ELSE "healthy"

\* HealthCheckService.determineOverallStatus
determineOverallStatus(checks) ==
  IF \E n \in DOMAIN checks : checks[n] = "fail" THEN "unhealthy"
  ELSE IF \E n \in DOMAIN checks : checks[n] = "warn" THEN "degraded"
  ELSE "healthy"

\* StatusSpec: determineOverallStatus applied to every list of checks
StatusInit ==
  /\ \E checks \in [CheckNames -> Statuses] \cup [QuickCheckNames -> Statuses] :
       mon = [pc |-> "checks", checks |-> checks, status |-> "none"]
  /\ gos = NoCall /\ clock = NoCall /\ walk = NoCall /\ RestIdle
  /\ isRunning = FALSE /\ lastSyncTime = 0 /\ syncCount = 0
  /\ cache = [k \in {} |-> 0]
  /\ cacheErrors = 0 /\ inv = [i \in Inv |-> Idle]
  /\ expected = 0 /\ last = NoneSettled
  /\ fkind = "fetchLimitedOrders" /\ fcap = 200 /\ fM = 0
  /\ fst = FetchStart /\ callLog = <<>>

DetermineStatus ==
  /\ mon.pc = "checks"
  /\ mon' = [mon EXCEPT !.pc = "determined",
                        !.status = determineOverallStatus(mon.checks)]
  /\ UNCHANGED <<fetchVars, schedVars, gos, clock, walk, restVars>>

StatusNext == DetermineStatus

StatusSpec == StatusInit /\ [][StatusNext]_vars

\* HealthSpec: the scheduled health check, run after run
\* keys the application has set before the health check runs
PresetKeys == {"dashboard:summary", "dashboard:sales"}

healthStatusKey == "system:health_status"
redisTestKey == "health:redis_test"

\* response times of the cache probe, in ms
ResponseTimes == {10, 1500, 6000}

\* getAPIUsageStats: available and maximum credits
ApiStats == {<<100, 1000>>, <<500, 1000>>}

\* process.memoryUsage(): heap used and heap total, in MB
HeapUsages ==
  {<<100, 400>>, <<300, 350>>, <<92, 100>>, <<600, 650>>, <<600, 1000>>}

\* checkRedisHealth: set, get and compare, del; any raise is a fail.  A get
\* that fails returns null, which is not the test value.
checkRedisHealth(setOk, getOk, delOk, responseTime) ==
  IF ~setOk THEN "fail"
  ELSE IF ~getOk THEN "fail"
  ELSE IF ~delOk THEN "fail"
  ELSE IF responseTime > 1000 THEN "warn"
  ELSE IF responseTime > 5000 THEN "fail"
  ELSE "pass"

\* the cache after checkRedisHealth: the test key stays unless del ran
AfterRedisProbe(c, setOk, getOk, delOk) ==
  IF ~setOk THEN c
  ELSE IF getOk /\ delOk THEN RedisDel(RedisSet(c, redisTestKey, 1, 60),
                                       redisTestKey)
  ELSE RedisSet(c, redisTestKey, 1, 60)

\* checkShopifyHealth
checkShopifyHealth(probe, stats) ==
  IF probe = "raises" THEN "fail"
  ELSE IF probe = "unhealthy" THEN "fail"
  ELSE IF stats[1] * 10 < stats[2] * 2 THEN "warn"
  ELSE "pass"

\* checkApplicationHealth: heap used as a share of heap total
checkApplicationHealth(heap) ==
  IF heap[1] * 100 > 90 * heap[2] THEN "fail"
  ELSE IF heap[1] * 100 > 80 * heap[2] THEN "warn"
  ELSE "pass"

\* checkMemoryHealth: heap used in MB
checkMemoryHealth(heap) ==
  IF heap[1] > 512 THEN "fail"
  ELSE IF heap[1] > 256 THEN "warn"
  ELSE "pass"

\* checkDiskHealth
checkDiskHealth == "pass"

\* checkDependencyHealth
checkDependencyHealth(missing) == IF missing THEN "fail" ELSE "pass"

\* a handleUnhealthyState that clears the failure count of the sync job
handleUnhealthyStateResetting(status, checks, c) ==
  [cleanups |-> 0, cache |-> RedisDel(c, failureCountKey)]

\* handleUnhealthyState: every branch logs; the number of emergency
\* cleanups it invokes and the cache it leaves
handleUnhealthyState(status, checks, c) ==
  [cleanups |-> 0, cache |-> c]

HealthIdle ==
  [pc |-> "idle", checks |-> [n \in CheckNames |-> "pass"],
   responseTime |-> 0, quick |-> "none",
   status |-> "none", stored |-> "none", cleanups |-> 0, result |-> "none"]

HealthInit ==
  /\ mon = HealthIdle
  /\ cache = [k \in PresetKeys \cup {failureCountKey} |->
                [value |-> 1, ttl |-> defaultTtl]]
  /\ gos = NoCall /\ clock = NoCall /\ walk = NoCall /\ RestIdle
  /\ isRunning = FALSE /\ lastSyncTime = 0 /\ syncCount = 0
  /\ cacheErrors = 0 /\ inv = [i \in Inv |-> Idle]
  /\ expected = 0 /\ last = NoneSettled
  /\ fkind = "fetchLimitedOrders" /\ fcap = 200 /\ fM = 0
  /\ fst = FetchStart /\ callLog = <<>>

healthFrame ==
  UNCHANGED <<fetchVars, isRunning, lastSyncTime, syncCount, cacheErrors,
              inv, expected, last, gos, clock, walk, restVars>>

\* @Cron('*/5 * * * *') performHealthCheck
performHealthCheck ==
  /\ mon.pc \in {"idle", "done"}
  /\ mon' = [HealthIdle EXCEPT !.pc = "probing"]
  /\ UNCHANGED cache
  /\ healthFrame

\* getHealthStatus: the six probes settle and the status is determined
GetHealthStatusReturn(setOk, getOk, delOk, ms, probe, stats, heap, missing) ==
  /\ mon.pc = "probing"
  /\ LET checks ==
           [n \in CheckNames |->
              CASE n = "redis" ->
                     checkRedisHealth(setOk, getOk, delOk, ms)
                [] n = "shopify_api" -> checkShopifyHealth(probe, stats)
                [] n = "application" -> checkApplicationHealth(heap)
                [] n = "memory" -> checkMemoryHealth(heap)
                [] n = "disk" -> checkDiskHealth
                [] OTHER -> checkDependencyHealth(missing)]
     IN mon' = [mon EXCEPT !.pc = "storing", !.checks = checks,
                           !.responseTime = ms,
                           !.status = determineOverallStatus(checks)]
  /\ cache' = AfterRedisProbe(cache, setOk, getOk, delOk)
  /\ healthFrame

\* getQuickHealthStatus, called through the API while no scheduled check
\* runs: the cache probe and the application check settle
getQuickHealthStatus(setOk, getOk, delOk, ms, heap) ==
  /\ mon.pc \in {"idle", "done"}
  /\ LET checks ==
           [n \in QuickCheckNames |->
              IF n = "redis" THEN checkRedisHealth(setOk, getOk, delOk, ms)
              ELSE checkApplicationHealth(heap)]
     IN mon' = [mon EXCEPT !.quick = determineOverallStatus(checks)]
  /\ cache' = AfterRedisProbe(cache, setOk, getOk, delOk)
  /\ healthFrame

\* the set of the health status returns or raises; after it
\* handleUnhealthyState runs
StoreStatusReturn(ok) ==
  /\ mon.pc = "storing"
  /\ IF ok
     THEN LET c == RedisSet(cache, healthStatusKey, mon.status, 600)
              h == handleUnhealthyState(mon.status, mon.checks, c)
          IN /\ cache' = h.cache
             /\ mon' = [mon EXCEPT !.pc = "done", !.stored = mon.status,
                                   !.cleanups = @ + h.cleanups,
                                   !.result = "returned"]
     ELSE /\ mon' = [mon EXCEPT !.pc = "catch"]
          /\ UNCHANGED cache
  /\ healthFrame

\* catch: the set of the error status returns or raises
StoreErrorStatusReturn(ok) ==
  /\ mon.pc = "catch"
  /\ IF ok
     THEN /\ cache' = RedisSet(cache, healthStatusKey, "unhealthy", 600)
          /\ mon' = [mon EXCEPT !.pc = "done", !.stored = "unhealthy",
                                !.result = "returned"]
     ELSE /\ mon' = [mon EXCEPT !.pc = "done", !.result = "raised"]
          /\ UNCHANGED cache
  /\ healthFrame

HealthNext ==
  \/ performHealthCheck
  \/ \E setOk, getOk, delOk, missing \in BOOLEAN :
       \E ms \in ResponseTimes :
         \E probe \in {"healthy", "unhealthy", "raises"} :
           \E stats \in ApiStats : \E heap \in HeapUsages :
             GetHealthStatusReturn(setOk, getOk, delOk, ms, probe, stats,
                                   heap, missing)
  \/ \E setOk, getOk, delOk \in BOOLEAN :
       \E ms \in ResponseTimes : \E heap \in HeapUsages :
         getQuickHealthStatus(setOk, getOk, delOk, ms, heap)
  \/ \E ok \in BOOLEAN : StoreStatusReturn(ok)
  \/ \E ok \in BOOLEAN : StoreErrorStatusReturn(ok)

HealthSpec == HealthInit /\ [][HealthNext]_vars

(***************************************************************************)
(* CallSpec: the calls that the scheduled jobs and the operator actions     *)
(* make, down to the cache manager.                                         *)
(***************************************************************************)
\* the methods carrying a @Cron decorator
ScheduledJobs ==
  {"ShopifySchedulerService.syncShopifyData",
   "ShopifySchedulerService.updateRealtimeMetrics",
   "ShopifySchedulerService.syncHistoricalData",
   "ShopifySchedulerService.monitorPerformance",
   "ShopifySchedulerService.checkInventoryAlerts",
   "ShopifySchedulerService.validateData",
   "DataCleanupService.performDailyCleanup",
   "DataCleanupService.performWeeklyCleanup",
   "DataCleanupService.performHourlyCleanup",
   "HealthCheckService.performHealthCheck"}

\* the controller handlers that start a job or change the cache
OperatorActions ==
  {"SystemController.triggerSync", "SystemController.resetSyncFailures",
   "SystemController.triggerCleanup", "SystemController.checkEmergencyCleanup",
   "SystemController.clearCache", "DashboardController.refreshDashboardData",
   "DashboardController.clearCache"}

\* the public emergency path of the cleanup service; nothing in the source
\* calls it
EmergencyPath == {"DataCleanupService.performEmergencyCleanup"}

EntryPoints == ScheduledJobs \cup OperatorActions \cup EmergencyPath

\* the pattern query parameter of SystemController.clearCache ("" is none)
Patterns == {"", "dashboard:*"}

\* a handleUnhealthyState that triggers the emergency cleanup
HandleUnhealthyStateCalleesCleanup ==
  {"DataCleanupService.performEmergencyCleanup"}

\* handleUnhealthyState: logs only
HandleUnhealthyStateCallees == {}

\* the methods that m calls directly; ShopifyService and the analytics
\* processors call nothing that reaches the cache
Callees(m, pattern) ==
  CASE m = "ShopifySchedulerService.syncShopifyData" ->
         {"ShopifyService", "AnalyticsService.syncShopifyData",
          "ShopifySchedulerService.storeSyncMetrics",
          "ShopifySchedulerService.handleSyncFailure"}
    [] m = "ShopifySchedulerService.storeSyncMetrics" ->
         {"RedisService.set", "RedisService.get"}
    [] m = "ShopifySchedulerService.handleSyncFailure" ->
         {"RedisService.get", "RedisService.set"}
    [] m = "ShopifySchedulerService.updateRealtimeMetrics" ->
         {"AnalyticsService.getRealTimeMetrics", "RedisService.getCacheKeys",
          "RedisService.set"}
    [] m = "ShopifySchedulerService.syncHistoricalData" ->
         {"AnalyticsService.getDateRangeAnalytics"}
    [] m = "ShopifySchedulerService.monitorPerformance" ->
         {"RedisService.getCacheKeys", "RedisService.set",
          "AnalyticsService.getCacheStats"}
    [] m = "ShopifySchedulerService.checkInventoryAlerts" ->
         {"ShopifyService", "RedisService.set"}
    [] m = "ShopifySchedulerService.validateData" ->
         {"RedisService.getCacheKeys", "RedisService.get", "ShopifyService",
          "RedisService.set"}
    [] m = "ShopifySchedulerService.triggerManualSync" ->
         {"ShopifySchedulerService.syncShopifyData"}
    [] m = "ShopifySchedulerService.resetFailureCount" -> {"RedisService.del"}
    [] m = "AnalyticsService.syncShopifyData" ->
         {"RedisService.set", "ShopifyService",
          "AnalyticsService.processAndCacheData"}
    [] m = "AnalyticsService.processAndCacheData" ->
         {"AnalyticsProcessors", "RedisService.set"}
    [] m \in {"AnalyticsService.getDashboardSummary",
              "AnalyticsService.getSalesAnalytics",
              "AnalyticsService.getCustomerAnalytics",
              "AnalyticsService.getInventoryAnalytics",
              "AnalyticsService.getPerformanceAnalytics"} ->
         {"RedisService.get", "ShopifyService", "AnalyticsProcessors",
          "RedisService.set"}
    [] m = "AnalyticsService.getDateRangeAnalytics" ->
         {"RedisService.get", "ShopifyService", "RedisService.set"}
    [] m = "AnalyticsService.getRealTimeMetrics" ->
         {"ShopifyService", "RedisService.get"}
    [] m = "AnalyticsService.clearCache" -> {"RedisService.del"}
    [] m = "AnalyticsService.getCacheStats" ->
         {"RedisService.exists", "RedisService.get"}
    [] m = "DataCleanupService.performDailyCleanup" ->
         {"DataCleanupService.cleanupOldSyncMetrics",
          "DataCleanupService.cleanupOldAlerts",
          "DataCleanupService.cleanupOldPerformanceMetrics",
          "RedisService.set"}
    [] m = "DataCleanupService.cleanupOldAlerts" ->
         {"RedisService.get", "RedisService.set"}
    [] m = "DataCleanupService.performWeeklyCleanup" ->
         {"DataCleanupService.archiveOldAnalytics",
          "DataCleanupService.optimizeCache", "RedisService.set"}
    [] m = "DataCleanupService.optimizeCache" ->
         {"RedisService.getCacheKeys", "RedisService.exists",
          "RedisService.get", "RedisService.set"}
    [] m = "DataCleanupService.performHourlyCleanup" ->
         {"DataCleanupService.cleanupTemporaryKeys",
          "DataCleanupService.cleanupExpiredSessions"}
    [] m = "DataCleanupService.performEmergencyCleanup" ->
         {"RedisService.clearAll"}
    [] m = "DataCleanupService.triggerManualCleanup" ->
         {"DataCleanupService.performDailyCleanup"}
    [] m = "HealthCheckService.performHealthCheck" ->
         {"HealthCheckService.getHealthStatus", "RedisService.set",
          "HealthCheckService.handleUnhealthyState"}
    [] m = "HealthCheckService.getHealthStatus" ->
         {"HealthCheckService.checkRedisHealth",
          "HealthCheckService.checkShopifyHealth",
          "HealthCheckService.checkApplicationHealth",
          "HealthCheckService.checkMemoryHealth",
          "HealthCheckService.checkDiskHealth",
          "HealthCheckService.checkDependencyHealth",
          "HealthCheckService.determineOverallStatus"}
    [] m = "HealthCheckService.checkRedisHealth" ->
         {"RedisService.set", "RedisService.get", "RedisService.del"}
    [] m = "HealthCheckService.checkShopifyHealth" -> {"ShopifyService"}
    [] m = "HealthCheckService.handleUnhealthyState" ->
         HandleUnhealthyStateCallees
    [] m = "SystemController.triggerSync" ->
         {"ShopifySchedulerService.triggerManualSync"}
    [] m = "SystemController.resetSyncFailures" ->
         {"ShopifySchedulerService.resetFailureCount"}
    [] m = "SystemController.triggerCleanup" ->
         {"DataCleanupService.triggerManualCleanup"}
    [] m = "SystemController.checkEmergencyCleanup" ->
         {"DataCleanupService.checkIfEmergencyCleanupNeeded"}
    [] m = "SystemController.clearCache" ->
         IF pattern # "" THEN {"AnalyticsService.clearCache"}
         ELSE {"RedisService.clearAll"}
    [] m = "DashboardController.refreshDashboardData" ->
         {"AnalyticsService.clearCache",
          "AnalyticsService.getDashboardSummary",
          "AnalyticsService.getSalesAnalytics",
          "AnalyticsService.getCustomerAnalytics",
          "AnalyticsService.getInventoryAnalytics",
          "AnalyticsService.getPerformanceAnalytics"}
    [] m = "DashboardController.clearCache" -> {"AnalyticsService.clearCache"}
    [] m = "RedisService.get" -> {"cacheManager.get"}
    [] m = "RedisService.set" -> {"cacheManager.set"}
    [] m = "RedisService.del" -> {"cacheManager.del"}
    [] m = "RedisService.exists" -> {"cacheManager.get"}
    [] m = "RedisService.clearAll" -> {"cacheManager.reset"}
    [] OTHER -> {}

CallInit ==
  /\ walk = NoCall /\ RestIdle
  /\ gos = NoCall /\ clock = NoCall /\ mon = NoCall
  /\ isRunning = FALSE /\ lastSyncTime = 0 /\ syncCount = 0
  /\ cache = [k \in {} |-> 0]
  /\ cacheErrors = 0 /\ inv = [i \in Inv |-> Idle]
  /\ expected = 0 /\ last = NoneSettled
  /\ fkind = "fetchLimitedOrders" /\ fcap = 200 /\ fM = 0
  /\ fst = FetchStart /\ callLog = <<>>

callFrame == UNCHANGED <<fetchVars, schedVars, gos, clock, mon, restVars>>

\* the scheduler or an operator starts an entry point
Enter(e, pattern) ==
  /\ walk.pc = "idle"
  /\ (e # "SystemController.clearCache") => pattern = ""
  /\ walk' = [pc |-> "in", stack |-> <<e>>, pattern |-> pattern]
  /\ callFrame

\* the method on top of the stack calls m
Call(m) ==
  /\ walk.pc = "in"
  /\ m \in Callees(walk.stack[Len(walk.stack)], walk.pattern)
  /\ walk' = [walk EXCEPT !.stack = Append(@, m)]
  /\ callFrame

\* the method on top of the stack returns
Return ==
  /\ walk.pc = "in"
  /\ walk' = IF Len(walk.stack) = 1 THEN NoCall
             ELSE [walk EXCEPT !.stack = SubSeq(@, 1, Len(@) - 1)]
  /\ callFrame

\* every method that appears in the call graph
Methods ==
  EntryPoints \cup
  UNION { Callees(e, p) : e \in EntryPoints, p \in Patterns } \cup
  {"RedisService.get", "RedisService.set", "RedisService.del",
   "RedisService.exists", "RedisService.clearAll", "RedisService.getCacheKeys",
   "cacheManager.get", "cacheManager.set", "cacheManager.del",
   "cacheManager.reset", "ShopifyService", "AnalyticsProcessors",
   "AnalyticsService.processAndCacheData", "AnalyticsService.clearCache",
   "AnalyticsService.getRealTimeMetrics", "AnalyticsService.getCacheStats",
   "AnalyticsService.getDateRangeAnalytics",
   "ShopifySchedulerService.syncShopifyData",
   "ShopifySchedulerService.resetFailureCount",
   "DataCleanupService.performDailyCleanup",
   "DataCleanupService.cleanupOldSyncMetrics",
   "DataCleanupService.cleanupOldAlerts",
   "DataCleanupService.cleanupOldPerformanceMetrics",
   "HealthCheckService.checkRedisHealth",
   "HealthCheckService.checkShopifyHealth",
   "HealthCheckService.checkApplicationHealth",
   "HealthCheckService.checkMemoryHealth",
   "HealthCheckService.checkDiskHealth",
   "HealthCheckService.checkDependencyHealth",
   "HealthCheckService.determineOverallStatus"}

CallNext ==
  \/ \E e \in EntryPoints, pattern \in Patterns : Enter(e, pattern)
  \/ \E m \in Methods : Call(m)
  \/ Return

CallSpec == CallInit /\ [][CallNext]_vars

(***************************************************************************)
(* QuerySpec: ShopifyGraphQLService.executeQuery, from the HTTP response   *)
(* to what the fetch loop sees.                                            *)
(***************************************************************************)
\* HTTP statuses of the upstream; 0 stands for no response at all
HttpStatuses == {0, 200, 401, 403, 422, 429, 500}

\* ShopifyError.code of the errors in a response body
ErrorCodes == {"THROTTLED", "ACCESS_DENIED", "BAD_USER_INPUT"}
ErrorLists == UNION {[1..n -> ErrorCodes] : n \in 0..2}

OperationNames == {"GetOrders", "GetProducts", "GetCustomers"}

\* new APIError(message, statusCode, isRetryable); 0 stands for a status
\* that is undefined
APIError(statusCode, isRetryable) ==
  [class |-> "APIError", statusCode |-> statusCode,
   isRetryable |-> isRetryable, response |-> 0]

\* the rejection of the HTTP client for a status outside 2xx
AxiosError(status) ==
  [class |-> "AxiosError", statusCode |-> 0, isRetryable |-> "undefined",
   response |-> status]

NoError == [class |-> "none"]

\* the try block of executeQuery: what it throws, if anything
executeQueryTry(status, errors) ==
  IF status # 200 THEN AxiosError(status)
  ELSE IF Len(errors) > 0 THEN APIError(0, "undefined")
  ELSE NoError

\* the catch block of executeQuery: what leaves the method
executeQueryCatch(error, errors) ==
  IF error.response = 429 THEN APIError(429, "true") ELSE error

\* the fetch loops: error instanceof APIError && error.isRetryable
IsRetryable(error) == error.class = "APIError" /\ error.isRetryable = "true"

\* the response as the fetch loop sees it
ResponseClass(error) ==
  IF error = NoError THEN "ok"
  ELSE IF IsRetryable(error) THEN "retryable"
  ELSE "fatal"

QueryInit ==
  /\ qry = NoCall
  /\ rd = NoCall /\ wipe = NoCall /\ LateIdle
  /\ gos = NoCall /\ clock = NoCall /\ mon = NoCall /\ walk = NoCall
  /\ isRunning = FALSE /\ lastSyncTime = 0 /\ syncCount = 0
  /\ cache = [k \in {} |-> 0]
  /\ cacheErrors = 0 /\ inv = [i \in Inv |-> Idle]
  /\ expected = 0 /\ last = NoneSettled
  /\ fkind = "fetchLimitedOrders" /\ fcap = 200 /\ fM = 0
  /\ fst = FetchStart /\ callLog = <<>>

queryFrame ==
  UNCHANGED <<fetchVars, schedVars, gos, clock, mon, walk, rd, wipe, lateVars>>

\* executeQuery posts the query
executeQuery(operationName) ==
  /\ qry.pc \in {"idle", "done"}
  /\ qry' = [pc |-> "post", operationName |-> operationName]
  /\ queryFrame

\* the HTTP client settles; executeQuery returns the body or raises
HttpPostReturn(status, errors) ==
  /\ qry.pc = "post"
  /\ LET thrown == executeQueryTry(status, errors)
         error == IF thrown = NoError THEN NoError
                  ELSE executeQueryCatch(thrown, errors)
     IN qry' = [pc |-> "done", operationName |-> qry.operationName,
                status |-> status, errors |-> errors, error |-> error,
                resp |-> ResponseClass(error)]
  /\ queryFrame

QueryNext ==
  \/ \E operationName \in OperationNames : executeQuery(operationName)
  \/ \E status \in HttpStatuses, errors \in ErrorLists :
       HttpPostReturn(status, errors)

QuerySpec == QueryInit /\ [][QueryNext]_vars

(***************************************************************************)
(* ReadSpec: the cache-aside reads of AnalyticsService, one step per await  *)
(***************************************************************************)
\* the reads, the key each one serves and the TTL of its write-back
ReadMethods ==
  {"getDashboardSummary", "getSalesAnalytics", "getCustomerAnalytics",
   "getInventoryAnalytics", "getPerformanceAnalytics"}

ReadKey(m) ==
  CASE m = "getDashboardSummary" -> "dashboard:summary"
    [] m = "getSalesAnalytics" -> "dashboard:sales"
    [] m = "getCustomerAnalytics" -> "dashboard:customers"
    [] m = "getInventoryAnalytics" -> "dashboard:inventory"
    [] m = "getPerformanceAnalytics" -> "dashboard:orders"

ReadTtl(m) == IF m = "getDashboardSummary" THEN 60 ELSE 300

\* the value a sync cycle left in the cache and the value computed afresh
CachedReport == 1
FreshReport == 2

\* the cache a read may find: any of the two first keys present
ReadCaches ==
  UNION { [K -> {[value |-> CachedReport, ttl |-> defaultTtl]}] :
          K \in SUBSET {"dashboard:summary", "dashboard:sales"} }

ReadInit ==
  /\ rd = NoCall
  /\ cache \in ReadCaches
  /\ qry = NoCall /\ wipe = NoCall /\ LateIdle
  /\ gos = NoCall /\ clock = NoCall /\ mon = NoCall /\ walk = NoCall
  /\ isRunning = FALSE /\ lastSyncTime = 0 /\ syncCount = 0
  /\ cacheErrors = 0 /\ inv = [i \in Inv |-> Idle]
  /\ expected = 0 /\ last = NoneSettled
  /\ fkind = "fetchLimitedOrders" /\ fcap = 200 /\ fM = 0
  /\ fst = FetchStart /\ callLog = <<>>

readFrame ==
  UNCHANGED <<fetchVars, isRunning, lastSyncTime, syncCount, cacheErrors, inv,
              expected, last, gos, clock, mon, walk, qry, wipe, lateVars>>

\* catch (error) of a read: logs and rethrows
readCatch(r) == [r EXCEPT !.pc = "done", !.result = "raised"]

\* a read starts: with forceRefresh it goes to the upstream at once
analyticsRead(m, forceRefresh) ==
  /\ rd.pc \in {"idle", "done"}
  /\ rd' = [pc |-> IF forceRefresh THEN "compute" ELSE "get",
            method |-> m, forceRefresh |-> forceRefresh,
            cacheRaised |-> FALSE, computed |-> FALSE, value |-> 0,
            result |-> "none"]
  /\ UNCHANGED cache
  /\ readFrame

\* redisService.get answers: a raising get is answered with null
ReadGetReturn(ok) ==
  /\ rd.pc = "get"
  /\ LET cached == RedisGetNumber(cache, ReadKey(rd.method), ok) IN
     rd' = IF cached # 0
           THEN [rd EXCEPT !.pc = "done", !.value = cached,
                           !.result = "returned"]
           ELSE [rd EXCEPT !.pc = "compute", !.cacheRaised = ~ok]
  /\ UNCHANGED cache
  /\ readFrame

\* the fetches and the aggregation settle
ReadComputeReturn(ok) ==
  /\ rd.pc = "compute"
  /\ rd' = IF ok
           THEN [rd EXCEPT !.pc = "set", !.computed = TRUE,
                           !.value = FreshReport]
           ELSE readCatch(rd)
  /\ UNCHANGED cache
  /\ readFrame

\* the write-back settles: redisService.set rethrows a backend error
ReadSetReturn(ok) ==
  /\ rd.pc = "set"
  /\ IF ok
     THEN /\ cache' = RedisSet(cache, ReadKey(rd.method), rd.value,
                               ReadTtl(rd.method))
          /\ rd' = [rd EXCEPT !.pc = "done", !.result = "returned"]
     ELSE /\ rd' = readCatch([rd EXCEPT !.cacheRaised = TRUE])
          /\ UNCHANGED cache
  /\ readFrame

ReadNext ==
  \/ \E m \in ReadMethods, forceRefresh \in BOOLEAN :
       analyticsRead(m, forceRefresh)
  \/ \E ok \in BOOLEAN : ReadGetReturn(ok)
  \/ \E ok \in BOOLEAN : ReadComputeReturn(ok)
  \/ \E ok \in BOOLEAN : ReadSetReturn(ok)

ReadSpec == ReadInit /\ [][ReadNext]_vars

(***************************************************************************)
(* RefreshSpec: DataCleanupService.optimizeCache, one step per await, with  *)
(* the report writes of a sync cycle falling between its steps              *)
(***************************************************************************)
\* optimizeCache: the keys it names
frequentlyAccessedKeys ==
  << "dashboard:summary", "dashboard:sales", "dashboard:customers",
     "dashboard:inventory" >>

\* key.split(':')[1]
SplitSecond(key) ==
  CASE key = "dashboard:summary" -> "summary"
    [] key = "dashboard:sales" -> "sales"
    [] key = "dashboard:customers" -> "customers"
    [] key = "dashboard:inventory" -> "inventory"

\* getCacheKeys().dashboard
DashboardCacheKeys ==
  [ summary       |-> "dashboard:summary",
    salesData     |-> "dashboard:sales",
    topProducts   |-> "dashboard:top_products",
    customerData  |-> "dashboard:customers",
    inventoryData |-> "dashboard:inventory",
    orderData     |-> "dashboard:orders" ]

\* cacheKeys.dashboard[key.split(':')[1]]: a property the object does not
\* have is undefined
FullKey(key) ==
  IF SplitSecond(key) \in DOMAIN DashboardCacheKeys
  THEN DashboardCacheKeys[SplitSecond(key)]
  ELSE "undefined"

\* the TTL a sync cycle gives to a report key
TierTtl(key) ==
  ReportWrites[CHOOSE p \in 1..Len(ReportWrites) : ReportWrites[p].key = key].ttl

\* TTL given by the refresh
refreshTtl == 3600

\* the next pass of the for loop that reaches an await: the first key from
\* position i on whose fullKey is a string
NextPass(i) ==
  LET S == { j \in i..Len(frequentlyAccessedKeys) :
               FullKey(frequentlyAccessedKeys[j]) # "undefined" }
  IN IF S = {} THEN Len(frequentlyAccessedKeys) + 1
     ELSE CHOOSE j \in S : \A k \in S : j <= k

\* the caches optimizeCache may find: any of the named keys, as written by
\* the last sync cycle
RefreshCaches ==
  UNION { [K -> {CachedReport}] :
          K \in SUBSET { frequentlyAccessedKeys[j] :
                         j \in 1..Len(frequentlyAccessedKeys) } }

RefreshInit ==
  /\ opt = NoCall
  /\ \E vals \in RefreshCaches :
        cache = [k \in DOMAIN vals |-> [value |-> vals[k], ttl |-> TierTtl(k)]]
  /\ prb = NoCall /\ rt = NoCall
  /\ qry = NoCall /\ rd = NoCall /\ wipe = NoCall
  /\ gos = NoCall /\ clock = NoCall /\ mon = NoCall /\ walk = NoCall
  /\ isRunning = FALSE /\ lastSyncTime = 0 /\ syncCount = 0
  /\ cacheErrors = 0 /\ inv = [i \in Inv |-> Idle]
  /\ expected = 0 /\ last = NoneSettled
  /\ fkind = "fetchLimitedOrders" /\ fcap = 200 /\ fM = 0
  /\ fst = FetchStart /\ callLog = <<>>

refreshFrame ==
  UNCHANGED <<fetchVars, isRunning, lastSyncTime, syncCount, inv, expected,
              last, gos, clock, mon, walk, qry, rd, wipe, prb, rt>>

\* the loop goes on with the pass at position i, or returns the count
ContinueAt(o, i) ==
  IF NextPass(i) > Len(frequentlyAccessedKeys)
  THEN [o EXCEPT !.pc = "done", !.i = NextPass(i),
                 !.result = o.optimizationCount]
  ELSE [o EXCEPT !.pc = "exists", !.i = NextPass(i)]

\* optimizeCache is called by the weekly cleanup
optimizeCache ==
  /\ opt.pc = "idle"
  /\ opt' = ContinueAt([pc |-> "idle", i |-> 0, data |-> 0,
                        optimizationCount |-> 0, result |-> 0,
                        found |-> DOMAIN cache, raised |-> FALSE,
                        overtaken |-> {}], 1)
  /\ UNCHANGED <<cache, cacheErrors>>
  /\ refreshFrame

\* redisService.exists answers: a backend error is answered with false
RefreshExistsReturn(ok) ==
  /\ opt.pc = "exists"
  /\ CountError(ok)
  /\ LET fullKey == FullKey(frequentlyAccessedKeys[opt.i])
         o == [opt EXCEPT !.raised = @ \/ ~ok]
     IN opt' = IF ok /\ fullKey \in DOMAIN cache
               THEN [o EXCEPT !.pc = "get"]
               ELSE ContinueAt(o, opt.i + 1)
  /\ UNCHANGED cache
  /\ refreshFrame

\* redisService.get answers
RefreshGetReturn(ok) ==
  /\ opt.pc = "get"
  /\ CountError(ok)
  /\ LET fullKey == FullKey(frequentlyAccessedKeys[opt.i])
         data == RedisGetNumber(cache, fullKey, ok)
         o == [opt EXCEPT !.raised = @ \/ ~ok]
     IN opt' = IF data # 0
               THEN [o EXCEPT !.pc = "set", !.data = data]
               ELSE ContinueAt(o, opt.i + 1)
  /\ UNCHANGED cache
  /\ refreshFrame

\* redisService.set answers; a raising set ends optimizeCache with 0
RefreshSetReturn(ok) ==
  /\ opt.pc = "set"
  /\ CountError(ok)
  /\ LET fullKey == FullKey(frequentlyAccessedKeys[opt.i]) IN
     IF ok
     THEN /\ cache' = RedisSet(cache, fullKey, opt.data, refreshTtl)
          /\ opt' = ContinueAt([opt EXCEPT !.optimizationCount = @ + 1],
                               opt.i + 1)
     ELSE /\ opt' = [opt EXCEPT !.pc = "done", !.result = 0, !.raised = TRUE]
          /\ UNCHANGED cache
  /\ refreshFrame

\* processAndCacheData of a sync cycle writes a fresh aggregate to the
\* report key at position p of its batch
ReportWriteLands(p) ==
  /\ opt.pc # "idle"
  /\ LET w == ReportWrites[p] IN
     /\ cache' = RedisSet(cache, w.key, FreshReport, w.ttl)
     /\ opt' = IF opt.pc = "set" /\ FullKey(frequentlyAccessedKeys[opt.i]) = w.key
               THEN [opt EXCEPT !.overtaken = @ \cup {w.key}]
               ELSE opt
  /\ cache' # cache
  /\ UNCHANGED cacheErrors
  /\ refreshFrame

RefreshNext ==
  \/ optimizeCache
  \/ \E ok \in CacheOutcomes : RefreshExistsReturn(ok)
  \/ \E ok \in CacheOutcomes : RefreshGetReturn(ok)
  \/ \E ok \in CacheOutcomes : RefreshSetReturn(ok)
  \/ \E p \in 1..Len(frequentlyAccessedKeys) : ReportWriteLands(p)

RefreshSpec == RefreshInit /\ [][RefreshNext]_vars

(***************************************************************************)
(* ProbeSpec: the cache probe of two health checks running at once against  *)
(* a working cache, one step per await                                      *)
(***************************************************************************)
\* the scheduled check and a check invoked through the API
Probers == {"performHealthCheck", "getQuickHealthStatus"}

ProbeIdle == [pc |-> "idle", testValue |-> 0, retrievedValue |-> 0,
              status |-> "none"]

ProbeInit ==
  /\ prb = [now |-> 1, run |-> [p \in Probers |-> ProbeIdle]]
  /\ cache = [k \in {} |-> 0]
  /\ opt = NoCall /\ rt = NoCall
  /\ qry = NoCall /\ rd = NoCall /\ wipe = NoCall
  /\ gos = NoCall /\ clock = NoCall /\ mon = NoCall /\ walk = NoCall
  /\ isRunning = FALSE /\ lastSyncTime = 0 /\ syncCount = 0
  /\ cacheErrors = 0 /\ inv = [i \in Inv |-> Idle]
  /\ expected = 0 /\ last = NoneSettled
  /\ fkind = "fetchLimitedOrders" /\ fcap = 200 /\ fM = 0
  /\ fst = FetchStart /\ callLog = <<>>

probeFrame ==
  UNCHANGED <<fetchVars, isRunning, lastSyncTime, syncCount, cacheErrors, inv,
              expected, last, gos, clock, mon, walk, qry, rd, wipe, opt, rt>>

\* a millisecond passes
ProbeClockTick ==
  /\ prb.now < MaxNow
  /\ prb' = [prb EXCEPT !.now = @ + 1]
  /\ UNCHANGED cache
  /\ probeFrame

\* testValue = Date.now().toString()
TestValue(p, now) == now

\* testKey = 'health:redis_test'
TestKey(p) == redisTestKey

\* checkRedisHealth up to the await of its set
ProbeStart(p) ==
  /\ prb.run[p].pc = "idle"
  /\ prb' = [prb EXCEPT !.run[p] = [ProbeIdle EXCEPT
                                      !.pc = "set",
                                      !.testValue = TestValue(p, prb.now)]]
  /\ UNCHANGED cache
  /\ probeFrame

\* the set of the test key completes
ProbeSetReturn(p) ==
  /\ prb.run[p].pc = "set"
  /\ cache' = RedisSet(cache, TestKey(p), prb.run[p].testValue, 60)
  /\ prb' = [prb EXCEPT !.run[p].pc = "get"]
  /\ probeFrame

\* the get of the test key completes: the value is compared with the one
\* written
ProbeGetReturn(p) ==
  /\ prb.run[p].pc = "get"
  /\ LET retrievedValue == RedisGetNumber(cache, TestKey(p), TRUE) IN
     prb' = IF retrievedValue = prb.run[p].testValue
            THEN [prb EXCEPT !.run[p].pc = "del",
                             !.run[p].retrievedValue = retrievedValue]
            ELSE [prb EXCEPT !.run[p].pc = "done",
                             !.run[p].retrievedValue = retrievedValue,
                             !.run[p].status = "fail"]
  /\ UNCHANGED cache
  /\ probeFrame

\* the del of the test key completes
ProbeDelReturn(p) ==
  /\ prb.run[p].pc = "del"
  /\ cache' = RedisDel(cache, TestKey(p))
  /\ prb' = [prb EXCEPT !.run[p].pc = "done", !.run[p].status = "pass"]
  /\ probeFrame

\* the check has answered; the next check of the same kind may start
ProbeEnd(p) ==
  /\ prb.run[p].pc = "done"
  /\ prb' = [prb EXCEPT !.run[p] = ProbeIdle]
  /\ UNCHANGED cache
  /\ probeFrame

ProbeNext ==
  \/ ProbeClockTick
  \/ \E p \in Probers : ProbeStart(p)
  \/ \E p \in Probers : ProbeSetReturn(p)
  \/ \E p \in Probers : ProbeGetReturn(p)
  \/ \E p \in Probers : ProbeDelReturn(p)
  \/ \E p \in Probers : ProbeEnd(p)

ProbeSpec == ProbeInit /\ [][ProbeNext]_vars

(***************************************************************************)
(* RoundTripSpec: a value stored through RedisService.set and read back     *)
(* through get, exists and getOrSet within its TTL                          *)
(***************************************************************************)
\* JavaScript values a caller may store, written as their literals
JsValues == {"0", "false", "''", "1", "'x'", "{}"}

\* the values that `||` and `if` take for false
Falsy == {"0", "false", "''", "null", "undefined"}

roundTripKey == "perf:requests:/dashboard"

\* cacheManager.get(key): the stored value, undefined when there is none
CacheManagerGet(c, key) ==
  IF key \in DOMAIN c THEN c[key].value ELSE "undefined"

\* RedisService.get: return value || null
RedisGet(c, key) ==
  IF CacheManagerGet(c, key) \in Falsy THEN "null"
  ELSE CacheManagerGet(c, key)

\* RedisService.exists: value !== undefined && value !== null
RedisExists(c, key) == CacheManagerGet(c, key) \notin {"undefined", "null"}

RoundTripIdle ==
  [pc |-> "idle", stored |-> "undefined", asked |-> "undefined",
   got |-> "none", exists |-> "none", factoryCalls |-> 0, returned |-> "none"]

RoundTripInit ==
  /\ rt = RoundTripIdle
  /\ cache = [k \in {} |-> 0]
  /\ opt = NoCall /\ prb = NoCall
  /\ qry = NoCall /\ rd = NoCall /\ wipe = NoCall
  /\ gos = NoCall /\ clock = NoCall /\ mon = NoCall /\ walk = NoCall
  /\ isRunning = FALSE /\ lastSyncTime = 0 /\ syncCount = 0
  /\ cacheErrors = 0 /\ inv = [i \in Inv |-> Idle]
  /\ expected = 0 /\ last = NoneSettled
  /\ fkind = "fetchLimitedOrders" /\ fcap = 200 /\ fM = 0
  /\ fst = FetchStart /\ callLog = <<>>

roundTripFrame ==
  UNCHANGED <<fetchVars, isRunning, lastSyncTime, syncCount, cacheErrors, inv,
              expected, last, gos, clock, mon, walk, qry, rd, wipe, opt, prb>>

\* set(key, v)
RoundTripSet(v) ==
  /\ cache' = RedisSet(cache, roundTripKey, v, 0)
  /\ rt' = [RoundTripIdle EXCEPT !.pc = "stored", !.stored = v, !.asked = v]
  /\ roundTripFrame

\* get(key) after the set
RoundTripGet ==
  /\ rt.pc = "stored"
  /\ rt' = [rt EXCEPT !.got = RedisGet(cache, roundTripKey)]
  /\ UNCHANGED cache
  /\ roundTripFrame

\* exists(key) after the set
RoundTripExists ==
  /\ rt.pc = "stored"
  /\ rt' = [rt EXCEPT !.exists =
                 IF RedisExists(cache, roundTripKey) THEN "true" ELSE "false"]
  /\ UNCHANGED cache
  /\ roundTripFrame

\* getOrSet(key, factory) after the set, with a factory that answers f:
\* value === null sends it to the factory and to the write-back
RoundTripGetOrSet(f) ==
  /\ rt.pc = "stored"
  /\ rt.returned = "none"
  /\ LET value == RedisGet(cache, roundTripKey) IN
     IF value = "null"
     THEN /\ cache' = RedisSet(cache, roundTripKey, f, 0)
          /\ rt' = [RoundTripIdle EXCEPT !.pc = "stored", !.stored = f,
                                         !.asked = rt.stored,
                                         !.factoryCalls = 1, !.returned = f]
     ELSE /\ rt' = [rt EXCEPT !.asked = rt.stored, !.returned = value]
          /\ UNCHANGED cache
  /\ roundTripFrame

RoundTripNext ==
  \/ \E v \in JsValues : RoundTripSet(v)
  \/ RoundTripGet
  \/ RoundTripExists
  \/ \E f \in JsValues : RoundTripGetOrSet(f)

RoundTripSpec == RoundTripInit /\ [][RoundTripNext]_vars

(***************************************************************************)
(* Properties                                                              *)
(***************************************************************************)
Max(a, b) == IF a > b THEN a ELSE b
Ceil(a, b) == (a + b - 1) \div b

Active(i) == inv[i].pc # "idle"
Failed(entry) == entry.resp \in {"retryable", "fatal"}
OkCalls == Cardinality({j \in 1..Len(callLog) : callLog[j].resp = "ok"})
FailedCalls == Cardinality({j \in 1..Len(callLog) : Failed(callLog[j])})

\* the number of failed requests at the end of the request log
TrailingFailures ==
  LET notFailed == {j \in 1..Len(callLog) : ~Failed(callLog[j])}
      lastGood  == IF notFailed = {} THEN 0
                   ELSE CHOOSE j \in notFailed : \A k \in notFailed : k <= j
  IN Len(callLog) - lastGood

\* the number of pages the upstream serves for the dataset (an empty
\* dataset is served as one empty page)
Pages == Max(1, Ceil(fM, pageSize))

\* C1: at most one invocation of syncShopifyData is past the isRunning
\* guard at any time, and an invocation that finds the flag set changes
\* neither the counter, nor the flag, nor the cache, nor starts any upstream
\* or cache call; an invocation that finds it clear raises syncCount by 1.
C1_SingleFlight ==
  /\ [](Cardinality({i \in Inv : Active(i)}) <= 1)
  /\ [][\A i \in Inv :
          syncShopifyData(i) =>
            IF isRunning
            THEN UNCHANGED <<syncCount, isRunning, cache, inv, lastSyncTime>>
            ELSE syncCount' = syncCount + 1]_vars

\* a trigger was turned away while the first cycle was running
C1_Witness ==
  /\ isRunning /\ syncCount = 1
  /\ last.op = "sync" /\ last.outcome = "Skipped"
  /\ \E i \in Inv : Active(i) /\ inv[i].pc = "fetching"

\* C2: isRunning is true exactly while a cycle is between its start and
\* its end, so it is false once syncShopifyData has returned, whatever
\* path the cycle took.
C2_RunningFlag == isRunning <=> (\E i \in Inv : Active(i))

\* a cycle has returned after a fatal fetch error whose metrics could not
\* be stored
C2_Witness ==
  /\ ~isRunning
  /\ last.op = "sync" /\ last.outcome = "Failure"
  /\ last.error = "upstream" /\ last.swallowed

\* C3: after a cycle that ended with Success, getSyncStatus reports
\* consecutiveFailures = 0.
C3_SuccessResetsCounter ==
  (last.op = "sync" /\ last.outcome = "Success") => consecutiveFailures = 0

\* C4: every cycle that ends in failure (its body raised, or its
\* reachability probe failed) raises consecutiveFailures by 1, so that after
\* such a cycle consecutiveFailures is the number of failed cycles since the
\* last Success or reset.
C4_FailureCounterLaw ==
  (last.op = "sync" /\ last.outcome \in {"Failure", "ProbeFailed"})
    => consecutiveFailures = expected

\* C5: a resetFailureCount whose delete succeeds leaves consecutiveFailures
\* at 0 whatever it was, and no resetFailureCount changes the running flag,
\* syncCount or lastSyncTime.
C5_ResetFrame ==
  [][\A ok \in BOOLEAN :
       resetFailureCount(ok) =>
         /\ ok => consecutiveFailures' = 0
         /\ UNCHANGED <<isRunning, syncCount, lastSyncTime>>]_vars

\* a reset has cleared a positive count after a successful and a failed
\* cycle
C5_Witness ==
  /\ last.op = "reset" /\ last.prior > 0
  /\ consecutiveFailures = 0
  /\ lastSyncTime > 0 /\ syncCount = 2

\* C6: an invocation of syncShopifyData never raises to its caller; an
\* error raised in the cycle body makes the outcome Failure, and its
\* message is the one stored in sync:last_error when the cache took the
\* failure records.
C6_ErrorsSwallowed ==
  last.op = "sync" =>
    /\ last.result = "returned"
    /\ last.error # "none" => last.outcome = "Failure"
    /\ (last.outcome = "Failure" /\ ~last.swallowed) =>
          /\ lastErrorKey \in DOMAIN cache
          /\ cache[lastErrorKey].value.error = last.error

\* a cycle failed in the aggregation and storing its metrics failed too;
\* the invocation returned
C6_Witness ==
  /\ last.op = "sync" /\ last.outcome = "Failure"
  /\ last.error = "aggregation" /\ last.swallowed
  /\ last.result = "returned"

\* C7 as stated: a fetch returns at most M records and makes at most
\* ceil(M/P) successful page calls.
C7_Original ==
  /\ Len(fst.records) <= fM
  /\ OkCalls <= Ceil(fM, pageSize)

\* C7: every paginated fetch terminates, returns at most M records, makes
\* at most max(1, ceil(M/P)) successful page calls and at most maxRetries
\* calls per page.
C7_Termination ==
  /\ [](/\ Len(fst.records) <= fM
        /\ OkCalls <= Pages
        /\ Len(callLog) <= Pages * maxRetries(fkind))
  /\ <>(fst.status # "running")

\* a fetch of several pages has returned the whole dataset although every
\* page failed maxRetries-1 times before it succeeded
C7_Witness ==
  /\ fst.status = "returned"
  /\ fst.records = Prefix(fM)
  /\ OkCalls >= 2
  /\ FailedCalls = OkCalls * (maxRetries(fkind) - 1)

\* C8: without upstream errors and with a dataset below the cap, a fetch
\* returns the records of the dataset in order, with one call per page,
\* each call carrying the cursor of the page before it.
C8_ConcatenatesPages ==
  ( /\ fst.status = "returned"
    /\ \A j \in 1..Len(callLog) : callLog[j].resp = "ok"
    /\ Capped(fkind) => fM < fcap )
  => /\ fst.records = Prefix(fM)
     /\ Len(callLog) = Pages
     /\ \A j \in 1..Len(callLog) : callLog[j].after = (j - 1) * pageSize

\* pages of 50, 50 and 20 records have given 120 records after 3 calls
C8_Witness ==
  /\ fst.status = "returned" /\ fkind = "fetchLimitedOrders"
  /\ fM = 120 /\ Len(fst.records) = 120 /\ Len(callLog) = 3
  /\ \A j \in 1..Len(callLog) : callLog[j].resp = "ok"

\* C9: a cycle in which a fetch recovered from retryable failures by
\* retrying got from that fetch the whole dataset, each record once, every
\* retry having carried the cursor of the failed request; and the cycle
\* ended with Success unless an error was raised elsewhere in its body.
C9_RetryRecovers ==
  (last.op = "sync" /\ last.retried) =>
    /\ last.intact
    /\ last.error = "none" => last.outcome = "Success"

\* a cycle with a recovered fetch has ended with Success
C9_Witness ==
  /\ last.op = "sync" /\ last.retried /\ last.intact
  /\ last.outcome = "Success"

\* C10: a fetch stops by exhaustion exactly when maxRetries requests in a
\* row have failed on one page; it then returns, without raising, the
\* records of the pages that succeeded before, a prefix of the dataset.
C10_PartialSuccess ==
  /\ TrailingFailures <= maxRetries(fkind)
  /\ TrailingFailures = maxRetries(fkind) =>
       /\ fst.status = "returned"
       /\ fst.records = Prefix(fst.cursor)
  /\ (fst.status = "returned" /\ TrailingFailures > 0) =>
       TrailingFailures = maxRetries(fkind)

\* a fetch has stopped on its second page after maxRetries failures there,
\* having recovered from failures on its first page
C10_Witness ==
  /\ fst.status = "returned"
  /\ TrailingFailures = maxRetries(fkind)
  /\ Len(fst.records) = pageSize
  /\ FailedCalls > maxRetries(fkind)

\* C11: a page request that fails with a non-retryable error ends the
\* fetch at once by raising that error to the caller, for every fetch and
\* whatever failed before on that page.
C11_FatalAborts ==
  (callLog # <<>> /\ callLog[Len(callLog)].resp = "fatal")
    => fst.status = "raised"

\* C12: a fetch raises only on a non-retryable error: when every failed
\* request of a fetch was retryable the fetch has not raised, and a fetch
\* that stopped on retryable failures has returned a prefix of the dataset.
C12_RetryableAbsorbed ==
  /\ (\A j \in 1..Len(callLog) : callLog[j].resp # "fatal")
        => fst.status # "raised"
  /\ ( /\ fst.status # "running"
       /\ callLog # <<>> /\ callLog[Len(callLog)].resp = "retryable" )
     => /\ fst.status = "returned"
        /\ fst.records = Prefix(Len(fst.records))
        /\ Len(fst.records) <= fM

\* an order fetch has returned a truncated result after its second page
\* was rate limited maxRetries times
C12_Witness ==
  /\ fkind \in {"fetchAllOrders", "fetchLimitedOrders"}
  /\ fst.status = "returned"
  /\ Len(fst.records) = pageSize /\ Len(fst.records) < fM
  /\ TrailingFailures = maxRetries(fkind)
  /\ \A j \in 1..Len(callLog) : callLog[j].resp \in {"ok", "retryable"}

\* C13: a getOrSet in which the cache raised and the factory did not has
\* returned a value the factory produced; a getOrSet raises only when the
\* factory raised; the factory runs at most twice, and once at most when
\* neither the cache nor the factory raised.
C13_CacheAsideFallback ==
  (gos.pc = "done") =>
    /\ gos.result = "raised" => gos.factoryRaised
    /\ (gos.cacheRaised /\ ~gos.factoryRaised) =>
          /\ gos.result = "returned"
          /\ gos.factoryCalls \in 1..2
          /\ gos.value \in FactoryValues
    /\ gos.factoryCalls <= 2
    /\ (~gos.cacheRaised /\ ~gos.factoryRaised) => gos.factoryCalls <= 1

\* the write raised after the factory had run: the factory ran a second
\* time and its value was returned
C13_Witness ==
  /\ gos.pc = "done" /\ gos.result = "returned"
  /\ gos.cacheRaised /\ ~gos.factoryRaised
  /\ gos.factoryCalls = 2
  /\ gos.key \notin DOMAIN cache

\* the key classes of the tier table
SecondaryAggregateKeys ==
  {"dashboard:sales", "dashboard:customers", "dashboard:inventory",
   "dashboard:orders"}
SnapshotKeys ==
  {"shopify:orders:page:1:latest", "shopify:products:page:1:latest",
   "shopify:customers:page:1:latest"}

\* C14: after a successful cycle every report key is in the cache with the
\* TTL of its class: dashboard:summary 60 s, the secondary aggregates
\* 300 s, the ':latest' snapshots between 600 s and 1200 s.
C14_TtlTiers ==
  (last.op = "sync" /\ last.outcome = "Success") =>
    /\ "dashboard:summary" \in DOMAIN cache
    /\ cache["dashboard:summary"].ttl = 60
    /\ \A k \in SecondaryAggregateKeys :
          k \in DOMAIN cache /\ cache[k].ttl = 300
    /\ \A k \in SnapshotKeys :
          k \in DOMAIN cache /\ cache[k].ttl \in 600..1200

\* the second cycle of a behaviour has succeeded and has rewritten every
\* report key
C14_Witness ==
  /\ last.op = "sync" /\ last.outcome = "Success" /\ syncCount = 2
  /\ \A k \in {"dashboard:summary"} \cup SecondaryAggregateKeys \cup SnapshotKeys :
        k \in DOMAIN cache /\ cache[k].value = 2

\* the report keys written by processAndCacheData
ReportKeys == {"dashboard:summary"} \cup SecondaryAggregateKeys \cup SnapshotKeys

C16_OverallStatus ==
  mon.pc = "determined" =>
    LET fails == \E n \in DOMAIN mon.checks : mon.checks[n] = "fail"
        warns == \E n \in DOMAIN mon.checks : mon.checks[n] = "warn"
    IN /\ (mon.status = "unhealthy") <=> fails
       /\ (mon.status = "degraded") <=> (~fails /\ warns)
       /\ (mon.status = "healthy") <=> (~fails /\ ~warns)

\* a failed check next to a warning one: the status is unhealthy
C16_Witness ==
  /\ mon.pc = "determined"
  /\ DOMAIN mon.checks = CheckNames
  /\ mon.checks["memory"] = "fail" /\ mon.checks["redis"] = "warn"
  /\ mon.status = "unhealthy"

\* C17: when a health check ends unhealthy with the memory check failed,
\* the emergency cleanup has been invoked exactly once and none of the keys
\* set before the run is in the cache any more.
C17_EmergencyCleanup ==
  (mon.pc = "done" /\ mon.result = "returned" /\ mon.status = "unhealthy"
     /\ mon.checks["memory"] = "fail")
    => /\ mon.cleanups = 1
       /\ \A k \in PresetKeys : k \notin DOMAIN cache

\* C18: a finished health check has returned to its caller, whatever the
\* probes and the cache did.
C18_NeverEscapes ==
  mon.pc = "done" => mon.result = "returned"

\* C20: a cycle whose probe failed ends as a failed cycle does:
\* consecutiveFailures has been raised, so that it is at least 1, and the
\* failure record is stored.
C20_ProbeFailureIsFailure ==
  (last.op = "sync" /\ last.outcome = "ProbeFailed")
    => /\ consecutiveFailures >= 1
       /\ lastErrorKey \in DOMAIN cache

C21_ProbeFailureSkipsBody ==
  [][\A i \in Inv :
       HealthCheckReturn(i, FALSE) =>
         /\ \A e \in SyncEntities : inv[i].fetched[e] = "none"
         /\ inv'[i] = Idle
         /\ last'.outcome = "ProbeFailed"
         /\ cache' = cache]_vars

\* the probe of the second cycle failed: the report keys in the cache are
\* those of the first cycle
C21_Witness ==
  /\ last.op = "sync" /\ last.outcome = "ProbeFailed"
  /\ syncCount = 2
  /\ \A k \in ReportKeys : k \in DOMAIN cache /\ cache[k].value = 1

\* C22: a cycle that failed during fetch or aggregation has left the
\* last-sync marker as it was: the marker in the cache is not the stamp of
\* that cycle.
C22_MarkerOnlyWithData ==
  (last.op = "sync" /\ last.outcome = "Failure"
     /\ last.error \in {"upstream", "aggregation"})
    => (lastSyncKey \in DOMAIN cache => cache[lastSyncKey].value # syncCount)

\* C23: the cache probe of a finished round of probes is Fail when the
\* round trip took more than 5000 ms and Warn or worse when it took more
\* than 1000 ms.
C23_LatencyClasses ==
  mon.pc \in {"storing", "catch", "done"} =>
    /\ mon.responseTime > 5000 => mon.checks["redis"] = "fail"
    /\ mon.responseTime > 1000 => mon.checks["redis"] \in {"warn", "fail"}

\* C24: a response with status 429 and a response whose body carries a
\* rate-limit error code are raised as retryable errors; a response refused
\* for authentication or validation is raised as a non-retryable error.
C24_ErrorClasses ==
  qry.pc = "done" =>
    /\ qry.status = 429 => qry.resp = "retryable"
    /\ (qry.status = 200
          /\ \E j \in DOMAIN qry.errors : qry.errors[j] = "THROTTLED")
         => qry.resp = "retryable"
    /\ (\/ qry.status \in {401, 403, 422}
        \/ /\ qry.status = 200 /\ Len(qry.errors) > 0
           /\ \A j \in DOMAIN qry.errors : qry.errors[j] # "THROTTLED")
         => qry.resp = "fatal"

\* C25: every page request asks for at least 1 and at most 50 records; a
\* capped fetch asks for min(50, cap - accumulated) and only while fewer
\* records than the cap are accumulated, and its result never holds more
\* records than the cap.
C25_RequestBudget ==
  /\ \A j \in DOMAIN callLog :
        /\ callLog[j].first >= 1 /\ callLog[j].first <= pageSize
        /\ Capped(fkind) =>
             /\ callLog[j].after < fcap
             /\ callLog[j].first = Min(pageSize, fcap - callLog[j].after)
  /\ Capped(fkind) => Len(fst.records) <= fcap

\* a capped fetch of 30 records from a larger dataset: one request for 30
C25_Witness ==
  /\ Capped(fkind) /\ fcap = 30 /\ fM > 50
  /\ fst.status = "returned" /\ Len(fst.records) = fcap
  /\ callLog # <<>> /\ callLog[Len(callLog)].first = 30

\* C26: a cycle starts only in the step of a trigger that found the running
\* flag false, one cycle for one such trigger; the step that ends a cycle
\* starts none and leaves no invocation waiting, so a trigger that was
\* turned away is dropped.
C26_SkippedIsDropped ==
  [][/\ syncCount' # syncCount =>
          /\ ~isRunning /\ syncCount' = syncCount + 1
          /\ \E i \in Inv : syncShopifyData(i)
     /\ \A i \in Inv :
          (inv[i].pc = "idle" /\ inv'[i].pc # "idle")
            => (~isRunning /\ syncCount' = syncCount + 1)
     /\ (isRunning /\ ~isRunning') =>
          /\ syncCount' = syncCount
          /\ \A i \in Inv : inv'[i].pc = "idle"]_vars

\* a trigger was turned away while the first cycle stored its metrics; no
\* other invocation is in progress
C26_Witness ==
  /\ isRunning /\ syncCount = 1
  /\ last.op = "sync" /\ last.outcome = "Skipped"
  /\ Cardinality({i \in Inv : inv[i].pc # "idle"}) = 1
  /\ \E i \in Inv : inv[i].pc = "metricsAgg"

\* C27: when every call a cycle awaits eventually returns or raises, a
\* cycle that set the running flag eventually ends: the flag is false and no
\* invocation is in progress, so that the next trigger starts a cycle.
C27_CycleEnds ==
  isRunning ~> (~isRunning /\ \A i \in Inv : inv[i].pc = "idle")

\* the second cycle, started after the first had ended, has ended too
C27_Witness ==
  /\ ~isRunning /\ syncCount = 2
  /\ \A i \in Inv : inv[i].pc = "idle"
  /\ last.op = "sync" /\ last.outcome = "Success"

\* C28: a settled cycle with a truncated fetch in which no fetch raised,
\* the aggregation did not raise and no report write was rejected has ended
\* with Success and has written every report key; and a cycle does not enter
\* handleSyncFailure, where the failure count is raised, because of a
\* truncated fetch.
C28_TruncatedIsSuccess ==
  /\ (last.op = "sync" /\ last.truncated
        /\ last.error \notin {"upstream", "aggregation", "cache"})
       => /\ last.outcome = "Success" /\ last.result = "returned"
          /\ \A k \in ReportKeys :
                k \in DOMAIN cache /\ cache[k].value = syncCount
  /\ \A i \in Inv :
       inv[i].pc \in {"failureGet", "failureSet", "lastErrorSet"}
         => inv[i].error \in {"upstream", "aggregation", "cache"}

\* the second cycle ended with Success on a truncated fetch; the failure
\* count left by the first cycle is still 1
C28_Witness ==
  /\ last.op = "sync" /\ last.truncated /\ last.outcome = "Success"
  /\ syncCount = 2 /\ consecutiveFailures = 1
  /\ \A k \in ReportKeys : k \in DOMAIN cache /\ cache[k].value = 2

\* C29: a finished cache-aside read whose upstream calls succeeded has
\* returned the freshly computed value to its caller, also when the cache
\* raised on the read or on the write-back.
C29_CacheErrorNotFatal ==
  (rd.pc = "done" /\ rd.computed)
    => (rd.result = "returned" /\ rd.value = FreshReport)

\* the report writes of the batch from position p on are in the cache, each
\* with the value of cycle n and the TTL of its tier
ReportsPresent(from, to, n) ==
  \A p \in from..to :
     /\ ReportWrites[p].key \in DOMAIN cache
     /\ cache[ReportWrites[p].key] = [value |-> n, ttl |-> ReportWrites[p].ttl]

\* a cycle has settled and the last emergency wipe emptied the cache while
\* that cycle was in flight
WipedCycleSettled ==
  /\ wipe # NoCall
  /\ wipe.wiped
  /\ wipe.cycle = syncCount
  /\ last.op = "sync"
  /\ last.outcome \in {"Success", "Failure"}
  /\ \A i \in Inv : inv[i].pc = "idle"

\* C30: an emergency wipe that falls between two awaits of a sync cycle does
\* not fail the cycle: unless a fetch, the aggregation or a cache call raised,
\* the cycle ends with Success; and every report key whose write completes
\* after the wipe is in the cache afterwards with the TTL of its tier.
C30_WipeTolerated ==
  /\ WipedCycleSettled =>
       /\ \/ last.outcome = "Success"
          \/ last.error \in {"upstream", "aggregation"}
          \/ cacheErrors > 0
       /\ last.outcome = "Success" =>
            ReportsPresent(wipe.position, Len(ReportWrites), wipe.cycle)
  /\ \A i \in Inv :
       (/\ wipe # NoCall
        /\ wipe.wiped
        /\ inv[i].pc # "idle"
        /\ inv[i].cycle = wipe.cycle
        /\ inv[i].pc = "caching" \/ inv[i].success)
       => ReportsPresent(wipe.position, NextReportWrite(inv[i]) - 1, wipe.cycle)

\* a cycle ended with Success although the cache was wiped after its first
\* report writes: the summary is gone, the later report keys are there
C30_Witness ==
  /\ WipedCycleSettled
  /\ last.outcome = "Success"
  /\ wipe.at = "caching"
  /\ wipe.position \in 2..Len(ReportWrites)
  /\ ReportWrites[1].key \notin DOMAIN cache
  /\ cacheErrors = 0

\* C31: when optimizeCache has returned and no cache call raised, every
\* named key that was in the cache when it started has been written again
\* with the refreshed TTL (or carries a newer report of a sync cycle), and
\* the count returned is the number of those keys.
C31_RefreshesAllowlist ==
  (opt.pc = "done" /\ ~opt.raised) =>
     /\ opt.result = Cardinality(opt.found)
     /\ \A k \in opt.found :
          cache[k].ttl = refreshTtl \/ cache[k].value = FreshReport

\* C36: once optimizeCache has returned, a named key to which a sync cycle
\* wrote a fresh aggregate between the refresh's read and its re-write holds
\* the fresh aggregate with the TTL of its tier.
C36_RefreshKeepsNewer ==
  opt.pc = "done" =>
     \A k \in opt.overtaken :
        cache[k] = [value |-> FreshReport, ttl |-> TierTtl(k)]

\* C32: no step of the Monitor (performHealthCheck, getHealthStatus,
\* getQuickHealthStatus) changes the running flag, the cycle count, the
\* last-cycle record or consecutiveFailures.
C32_MonitorFrame ==
  [][ /\ isRunning' = isRunning
      /\ syncCount' = syncCount
      /\ lastSyncTime' = lastSyncTime
      /\ RedisGetNumber(cache', statusFailureCountKey, TRUE)
           = consecutiveFailures ]_vars

\* an unhealthy scheduled check and a quick check have both run and written
\* to the cache, and the failure count is still the one stored before
C32_Witness ==
  /\ mon.pc = "done"
  /\ mon.status = "unhealthy"
  /\ mon.quick # "none"
  /\ healthStatusKey \in DOMAIN cache
  /\ consecutiveFailures = 1

\* C33: consecutiveFailures changes only through a cycle outcome or through
\* resetFailureCount: a step of the emergency wipe leaves the value reported
\* by getSyncStatus as it was.
C33_WipeKeepsCounter ==
  [][ wipe' # wipe =>
        RedisGetNumber(cache', statusFailureCountKey, TRUE)
          = consecutiveFailures ]_vars

\* C34: when the failure handling of a cycle finishes after a
\* resetFailureCount that returned while the cycle was in flight, the value
\* reported as consecutiveFailures is not the count before the reset plus
\* one: the reset is not lost.
C34_ResetNotLost ==
  [][ \A i \in Inv :
        ( /\ inv[i].pc = "lastErrorSet"
          /\ inv'[i].pc = "idle"
          /\ last.op = "reset"
          /\ last.result = "returned"
          /\ last.prior > 0 )
        => RedisGetNumber(cache', statusFailureCountKey, TRUE)
             # last.prior + 1 ]_vars

\* C35: against a working cache, a cache probe that has finished while
\* another one was running does not report the cache check as Fail.
C35_ProbesIndependent ==
  \A p \in Probers : prb.run[p].pc = "done" => prb.run[p].status # "fail"

\* C37: a getOrSet in which no cache call raised has invoked factory at
\* most once, also when factory itself raised on the miss.
C37_FactoryOnce ==
  (gos.pc = "done" /\ ~gos.cacheRaised) => gos.factoryCalls <= 1

\* C38: for every value stored by set, a get within the TTL returns that
\* value, exists is true exactly when get returns a value, and getOrSet
\* returns the stored value without invoking factory.
C38_RoundTrip ==
  rt.pc = "stored" =>
    /\ rt.got # "none" => rt.got = rt.stored
    /\ (rt.got # "none" /\ rt.exists # "none") =>
          (rt.exists = "true" <=> rt.got # "null")
    /\ rt.returned # "none" =>
          (rt.factoryCalls = 0 /\ rt.returned = rt.asked)

\* the aggregated sync metrics as getSyncStatus reads them: the zero
\* aggregate when the entry is absent
StoredAggregate == ExistingAggregate(cache, TRUE)

\* the cycles whose individual metrics are in the cache, and those among
\* them stored as successful
MeteredCycles == { n \in 1..syncCount : MetricKey(n) \in DOMAIN cache }
MeteredSuccesses == { n \in MeteredCycles : cache[MetricKey(n)].value.success }

C40_PositiveTtl ==
  /\ \A k \in DOMAIN cache : cache[k].ttl > 0
  /\ lastSyncKey \in DOMAIN cache => cache[lastSyncKey].ttl = defaultTtl

\* a cycle has written its stamp without a TTL and its summary with one
C40_Witness ==
  /\ lastSyncKey \in DOMAIN cache
  /\ cache[lastSyncKey].ttl = defaultTtl
  /\ "dashboard:summary" \in DOMAIN cache
  /\ cache["dashboard:summary"].ttl = 60

====
